---- MODULE Spec2Model ----
(***************************************************************************)
(* Command resolution and workflow execution pipeline of the ChatOps bot:  *)
(* ChatOpsApp.process_message (bot/app.py), CommandParser.parse            *)
(* (bot/command_parser.py) and WorkflowManager (bot/workflow_manager.py).  *)
(*                                                                         *)
(* Python strings that the code inspects character by character (message   *)
(* texts, parameter values) are sequences of characters; a multi-letter    *)
(* element such as "api" stands for a run of plain characters.  Strings    *)
(* that the code only compares or uses as dictionary keys are TLA+         *)
(* strings.  Python None is the string None where a str is expected and    *)
(* the record NoCommand where a command dictionary is expected.            *)
(***************************************************************************)
EXTENDS Integers, Sequences, FiniteSets, TLC

VARIABLES
    pc,            \* position of the running process_message call
    templates_path,\* WorkflowManager.templates_path: "str" or "Path"
    user_id,       \* argument of process_message
    message,       \* argument of process_message
    intent,        \* result of NLPProcessor.process
    entities,      \* result of NLPProcessor.process
    confidence,    \* result of NLPProcessor.process, in percent
    command,       \* result of CommandParser.parse
    reply,         \* what process_message returned
    calls,         \* which callees this process_message call has invoked so far
    workflow,      \* the workflow of the outermost _execute_workflow invocation
    parameters,    \* the parameters of the running _execute_workflow invocation
    stack,         \* call stack of the step execution engine
    dispatched,    \* paths of the steps handed to a step handler, in order
    inflight,      \* paths of the adapter calls that have not returned yet
    report,        \* what the outermost _execute_workflow returned
    declared_params,\* step.get('parameters', {}) of the latest step (line 163)
    handler_params,\* what _replace_parameters made of it (line 166)
    error_log,     \* paths of the steps that logger.error reported as failed
    running,       \* the thread that holds the interpreter: the variables
                   \* above, templates_path aside, are its call of
                   \* process_message
    suspended,     \* the call of process_message of the thread that waits
    cancel_signal, \* the caller of the running invocation has given it up
    command_templates, \* CommandParser.command_templates
    tf_pc,         \* position of the running TerraformIntegration.run_terraform call
    tf_action,     \* its argument action
    tf_workspace,  \* its argument workspace
    temp_var_file, \* the temporary variable file: "None", "exists" or "deleted"
    tf_commands,   \* the terraform commands run so far, in order
    tf_result,     \* what run_terraform returned
    jk_pc,         \* position of the running JenkinsIntegration.trigger_job call
    client,        \* JenkinsIntegration.client is set
    wait,          \* argument wait of trigger_job
    client_calls,  \* the calls made on the client so far, in order
    polls,         \* passes through the waiting loop that is running
    build_number,  \* build_number of trigger_job
    jk_result      \* what trigger_job returned

vars == <<pc, templates_path, user_id, message, intent, entities, confidence,
          command, reply, calls, workflow, parameters, stack, dispatched,
          inflight, report, declared_params, handler_params, error_log,
          running, suspended, cancel_signal, command_templates,
          tf_pc, tf_action, tf_workspace, temp_var_file, tf_commands, tf_result,
          jk_pc, client, wait, client_calls, polls, build_number, jk_result>>

terraformVars == <<tf_pc, tf_action, tf_workspace, temp_var_file, tf_commands,
                   tf_result>>
jenkinsVars == <<jk_pc, client, wait, client_calls, polls, build_number, jk_result>>
adapterVars == <<terraformVars, jenkinsVars>>

\* what no step of a process_message call assigns: the configuration, the
\* call of the other thread and what happens to the caller
callerVars == <<templates_path, running, suspended, cancel_signal, adapterVars>>
envVars == <<callerVars, command_templates>>

appVars == <<user_id, message, intent, entities, confidence, command, reply, calls>>
engineVars == <<workflow, parameters, stack, dispatched, inflight, report,
                declared_params, handler_params, error_log>>

----------------------------------------------------------------------------
(* Bounds of the model *)

MaxMsgLen == 3
MaxSteps == 3
MaxDepth == 2
MaxBranch == 2
MaxPolls == 2

----------------------------------------------------------------------------
(* Python values *)

None == "None"
NoCommand == [none |-> TRUE]
IsNone(c) == "none" \in DOMAIN c

\* str.lower() on one character
LowerChar(c) ==
    CASE c = "R" -> "r"
      [] c = "M" -> "m"
      [] c = "P" -> "p"
      [] OTHER -> c

\* str.lower()
Lower(s) == [i \in DOMAIN s |-> LowerChar(s[i])]

\* Python's `sub in s` on strings
Contains(sub, s) ==
    \E k \in 0..(Len(s) - Len(sub)) : SubSeq(s, k + 1, k + Len(sub)) = sub

\* d[k] = v on a dictionary
Put(d, k, v) == [x \in (DOMAIN d) \cup {k} |-> IF x = k THEN v ELSE d[x]]

EmptyDict == [x \in {} |-> None]

\* for key, value in src.items(): dst[key] = value
RECURSIVE PutAll(_, _, _)
PutAll(dst, src, keys) ==
    IF keys = {} THEN dst
    ELSE LET k == CHOOSE x \in keys : TRUE
         IN PutAll(Put(dst, k, src[k]), src, keys \ {k})

\* all strings of length at most n over the alphabet
RECURSIVE Strings(_, _)
Strings(alphabet, n) ==
    IF n = 0 THEN {<<>>}
    ELSE LET shorter == Strings(alphabet, n - 1)
         IN shorter \cup {Append(s, c) : s \in shorter, c \in alphabet}

----------------------------------------------------------------------------
(* Configuration read by ChatOpsApp: config['security'], config['nlp'] *)

authorized_users == {"alice", "root"}
admin_users == {"root", "carol"}
restricted_commands == <<<<"R", "m">>>>
approval_required == <<<<"M", "p">>>>
confidence_threshold == 70

Users == {"alice", "root", "carol", "mallory"}
Alphabet == {"r", "M", "p"}
Messages == Strings(Alphabet, MaxMsgLen)

----------------------------------------------------------------------------
(* ChatOpsApp._is_user_authorized and ChatOpsApp._requires_approval *)

\* the loop over restricted_commands: some entry makes the loop return False
RestrictedHit(user, msg) ==
    \E i \in DOMAIN restricted_commands :
        /\ Contains(Lower(restricted_commands[i]), Lower(msg))
        /\ user \notin admin_users

IsUserAuthorizedNoLower(user, msg) ==
    IF user \notin authorized_users THEN FALSE
    ELSE ~(\E i \in DOMAIN restricted_commands :
              /\ Contains(Lower(restricted_commands[i]), msg)
              /\ user \notin admin_users)

IsUserAuthorizedAdminOnly(user, msg) ==
    IF user \notin admin_users THEN FALSE
    ELSE ~RestrictedHit(user, msg)

_is_user_authorized(user, msg) ==
    IF user \notin authorized_users THEN FALSE
    ELSE ~RestrictedHit(user, msg)

RequiresApprovalNever(msg) == FALSE

RequiresApprovalNoLower(msg) ==
    \E i \in DOMAIN approval_required :
        Contains(Lower(approval_required[i]), msg)

_requires_approval(msg) ==
    \E i \in DOMAIN approval_required :
        Contains(Lower(approval_required[i]), Lower(msg))

----------------------------------------------------------------------------
(* CommandParser *)

\* a Python str value
Str(s) == [str |-> s]

\* truthiness of a str-or-None
Truthy(x) == x # None /\ x # ""

_load_command_templates ==
    [deploy |->
        [action |-> "deploy",
         required_entities |-> <<"service">>,
         optional_entities |-> <<"environment", "version">>,
         defaults |-> [environment |-> Str(<<"development">>),
                       version |-> Str(<<"latest">>)],
         workflow |-> "deploy_workflow.yaml"],
     scale |->
        [action |-> "scale",
         required_entities |-> <<"service">>,
         optional_entities |-> <<"count", "direction", "environment">>,
         defaults |-> [environment |-> Str(<<"development">>),
                       count |-> Str(<<"1">>),
                       direction |-> Str(<<"up">>)],
         workflow |-> "scale_workflow.yaml"],
     status |->
        [action |-> "status",
         required_entities |-> <<>>,
         optional_entities |-> <<"service", "environment">>,
         defaults |-> [environment |-> Str(<<"development">>)],
         workflow |-> "status_workflow.yaml"],
     provision |->
        [action |-> "provision",
         required_entities |-> <<"resource">>,
         optional_entities |-> <<"count", "environment", "region">>,
         defaults |-> [environment |-> Str(<<"development">>),
                       count |-> Str(<<"1">>),
                       region |-> Str(<<"us-east-1">>)],
         workflow |-> "provision_workflow.yaml"],
     help |->
        [action |-> "help",
         required_entities |-> <<>>,
         optional_entities |-> <<"topic">>,
         defaults |-> EmptyDict,
         workflow |-> None]]

MissingRequiredIgnored(template, ents) == FALSE

\* the first loop of parse: some required entity is not in the entity map
MissingRequired(template, ents) ==
    \E i \in DOMAIN template.required_entities :
        template.required_entities[i] \notin DOMAIN ents

\* the two loops of parse that fill command["parameters"]
BuildParametersDefaultsLast(template, ents) ==
    PutAll(PutAll(EmptyDict, ents, DOMAIN ents),
           template.defaults, DOMAIN template.defaults)

BuildParametersEntitiesOnly(template, ents) ==
    PutAll(EmptyDict, ents, DOMAIN ents)

BuildParameters(template, ents) ==
    PutAll(PutAll(EmptyDict, template.defaults, DOMAIN template.defaults),
           ents, DOMAIN ents)

ParseAlwaysAttaches(int, ents) ==
    IF int \notin DOMAIN command_templates THEN NoCommand
    ELSE LET template == command_templates[int]
         IN IF MissingRequired(template, ents) THEN NoCommand
            ELSE [action |-> template.action,
                  parameters |-> BuildParameters(template, ents),
                  workflow |-> template.workflow]

ParseNeverAttaches(int, ents) ==
    IF int \notin DOMAIN command_templates THEN NoCommand
    ELSE LET template == command_templates[int]
         IN IF MissingRequired(template, ents) THEN NoCommand
            ELSE [action |-> template.action,
                  parameters |-> BuildParameters(template, ents)]

ParseFallsBackToHelp(int, ents) ==
    LET template == IF int \in DOMAIN command_templates
                    THEN command_templates[int] ELSE command_templates["help"]
    IN IF MissingRequired(template, ents) THEN NoCommand
       ELSE IF Truthy(template.workflow)
            THEN [action |-> template.action,
                  parameters |-> BuildParameters(template, ents),
                  workflow |-> template.workflow]
            ELSE [action |-> template.action,
                  parameters |-> BuildParameters(template, ents)]

parse(int, ents) ==
    IF int \notin DOMAIN command_templates THEN NoCommand
    ELSE LET template == command_templates[int]
         IN IF MissingRequired(template, ents) THEN NoCommand
            ELSE IF Truthy(template.workflow)
                 THEN [action |-> template.action,
                       parameters |-> BuildParameters(template, ents),
                       workflow |-> template.workflow]
                 ELSE [action |-> template.action,
                       parameters |-> BuildParameters(template, ents)]

SharesDefaultsAlways == TRUE

\* command["parameters"] is template["defaults"]: the dict that parse fills
\* is the one its own literal has just made (lines 97-100)
SharesDefaults == FALSE

\* self.command_templates after `params` was written to the parameters of
\* the command that parse built for the intent
WriteThrough(int, params) ==
    IF SharesDefaults
    THEN [command_templates EXCEPT ![int].defaults = params]
    ELSE command_templates

\* command.get('workflow')
CommandWorkflow(cmd) == IF "workflow" \in DOMAIN cmd THEN cmd.workflow ELSE None

----------------------------------------------------------------------------
(* What NLPProcessor.process can return *)

Intents == (DOMAIN command_templates) \cup {"unknown"}
EntityValues ==
    [service |-> Str(<<"api">>), environment |-> Str(<<"production">>),
     count |-> Str(<<"3">>)]
EntityMaps == {[k \in K |-> EntityValues[k]] : K \in SUBSET (DOMAIN EntityValues)}
Confidences == {confidence_threshold - 1, confidence_threshold, 92}

----------------------------------------------------------------------------
(* WorkflowManager: parameter substitution *)

\* value.startswith('${') and value.endswith('}')
IsPlaceholder(s) ==
    /\ Len(s) >= 2 /\ s[1] = "$" /\ s[2] = "{"
    /\ Len(s) >= 1 /\ s[Len(s)] = "}"

\* value[2:-1]
ParamName(s) == SubSeq(s, 3, Len(s) - 1)

\* param_name in parameters: the keys are runs of plain characters
HasParam(params, name) == Len(name) = 1 /\ name[1] \in DOMAIN params

\* isinstance(value, str), isinstance(value, dict), isinstance(value, list):
\* a str is [str |-> characters], a dict is [dict |-> key to value], a list is
\* [list |-> sequence of values], an int is [int |-> n], None is [none |-> TRUE]
NoneValue == [none |-> TRUE]
IsStr(value) == "str" \in DOMAIN value
IsMapping(value) == "dict" \in DOMAIN value
IsList(value) == "list" \in DOMAIN value

ReplaceStrRescan(s, params) ==
    LET once == IF IsPlaceholder(s) /\ HasParam(params, ParamName(s))
                THEN params[ParamName(s)[1]]
                ELSE Str(s)
    IN IF IsStr(once) /\ IsPlaceholder(once.str)
          /\ HasParam(params, ParamName(once.str))
       THEN params[ParamName(once.str)[1]]
       ELSE once

ReplaceStrDropsAbsent(s, params) ==
    IF IsPlaceholder(s)
    THEN (IF HasParam(params, ParamName(s)) THEN params[ParamName(s)[1]]
          ELSE NoneValue)
    ELSE Str(s)

\* the str case of _replace_parameters (lines 223-228, 233-234): one pass,
\* the inserted value is not looked at again
ReplaceStr(s, params) ==
    IF IsPlaceholder(s) /\ HasParam(params, ParamName(s))
    THEN params[ParamName(s)[1]]
    ELSE Str(s)

RECURSIVE _replace_parameters(_, _), _replace_item(_, _)

\* _replace_parameters, lines 220-236
_replace_parameters(step_params, params) ==
    [key \in DOMAIN step_params |->
        LET value == step_params[key]
        IN IF IsStr(value) THEN ReplaceStr(value.str, params)
           ELSE IF IsMapping(value)
           THEN [dict |-> _replace_parameters(value.dict, params)]
           ELSE IF IsList(value)
           THEN [list |-> [k \in DOMAIN value.list |->
                              _replace_item(value.list[k], params)]]
           ELSE value]

\* _replace_item, lines 248-257
_replace_item(item, params) ==
    IF IsStr(item) /\ IsPlaceholder(item.str)
    THEN (IF HasParam(params, ParamName(item.str))
          THEN params[ParamName(item.str)[1]]
          ELSE item)
    ELSE IF IsMapping(item)
    THEN [dict |-> _replace_parameters(item.dict, params)]
    ELSE IF IsList(item)
    THEN [list |-> [k \in DOMAIN item.list |->
                       _replace_item(item.list[k], params)]]
    ELSE item

----------------------------------------------------------------------------
(* WorkflowManager: step results and the formatted report *)

Ok(msg) == [success |-> TRUE, message |-> msg]
Failed(msg) == [success |-> FALSE, message |-> msg]
Text(msg) == [text |-> msg]

\* isinstance(result, dict)
IsDict(result) == "success" \in DOMAIN result

\* not result.get('success', True)
NotSuccess(result) == ~(IF "success" \in DOMAIN result THEN result.success ELSE TRUE)

IsFailureNever(result) == FALSE

\* the failure test of _execute_workflow (line 194)
IsFailure(result) == IsDict(result) /\ NotSuccess(result)

NoReport == [none |-> TRUE]

\* one line of the report (lines 455-470)
ReportLine(entry) ==
    [step |-> entry.step,
     type |-> entry.type,
     mark |-> IF IsDict(entry.result)
              THEN (IF ~NotSuccess(entry.result) THEN "ok" ELSE "failed")
              ELSE "plain",
     message |-> IF IsDict(entry.result) THEN entry.result.message
                 ELSE entry.result.text]

_format_workflow_result(workflow_name, results) ==
    LET all_success ==
            ~(\E k \in DOMAIN results :
                IsDict(results[k].result) /\ NotSuccess(results[k].result))
    IN [workflow |-> workflow_name,
        header |-> IF all_success THEN "completed successfully" ELSE "failed",
        lines |-> [k \in DOMAIN results |-> ReportLine(results[k])]]

----------------------------------------------------------------------------
(* WorkflowManager: conditions *)

\* dict.get(key, default)
GetOr(d, key, default) == IF key \in DOMAIN d THEN d[key] ELSE default

\* order of the characters that occur in parameter values
CharRank(c) ==
    CASE c = "$" -> 0
      [] c = "1" -> 1
      [] c = "3" -> 2
      [] c = "api" -> 3
      [] c = "build" -> 4
      [] c = "development" -> 5
      [] c = "latest" -> 6
      [] c = "production" -> 7
      [] c = "service" -> 8
      [] c = "up" -> 9
      [] c = "us-east-1" -> 10
      [] c = "{" -> 11
      [] c = "}" -> 12
      [] OTHER -> 13

\* a < b on Python strings
StrLess(a, b) ==
    \/ /\ Len(a) < Len(b)
       /\ \A k \in 1..Len(a) : a[k] = b[k]
    \/ \E k \in 1..Len(a) :
          /\ k <= Len(b)
          /\ \A j \in 1..(k - 1) : a[j] = b[j]
          /\ CharRank(a[k]) < CharRank(b[k])

IsInt(value) == "int" \in DOMAIN value

\* a < b on two str or on two int
Less(a, b) == IF IsStr(a) THEN StrLess(a.str, b.str) ELSE a.int < b.int

\* the comparison of _evaluate_condition raises TypeError: an order between
\* values that are not both str or both int (lines 396-402), or `in` when
\* one side is no str (lines 404-406)
EvaluateRaises(actual_value, expected_value, operator) ==
    \/ /\ operator \in {"gt", "lt", "ge", "le"}
       /\ ~(IsStr(actual_value) /\ IsStr(expected_value))
       /\ ~(IsInt(actual_value) /\ IsInt(expected_value))
    \/ /\ operator \in {"contains", "not_contains"}
       /\ ~(IsStr(actual_value) /\ IsStr(expected_value))

EvaluateUnknownAsTrue(actual_value, expected_value, operator) ==
    CASE operator = "eq" -> actual_value = expected_value
      [] operator = "ne" -> actual_value # expected_value
      [] operator = "gt" -> Less(expected_value, actual_value)
      [] operator = "lt" -> Less(actual_value, expected_value)
      [] operator = "ge" -> ~Less(actual_value, expected_value)
      [] operator = "le" -> ~Less(expected_value, actual_value)
      [] operator = "contains" -> Contains(expected_value.str, actual_value.str)
      [] operator = "not_contains" -> ~Contains(expected_value.str, actual_value.str)
      [] OTHER -> TRUE

\* the value _evaluate_condition returns when it does not raise
_evaluate_condition(actual_value, expected_value, operator) ==
    CASE operator = "eq" -> actual_value = expected_value
      [] operator = "ne" -> actual_value # expected_value
      [] operator = "gt" -> Less(expected_value, actual_value)
      [] operator = "lt" -> Less(actual_value, expected_value)
      [] operator = "ge" -> ~Less(actual_value, expected_value)
      [] operator = "le" -> ~Less(expected_value, actual_value)
      [] operator = "contains" -> Contains(expected_value.str, actual_value.str)
      [] operator = "not_contains" -> ~Contains(expected_value.str, actual_value.str)
      [] OTHER -> FALSE

\* what a step handler hands back to the loop of _execute_workflow: a result,
\* an exception, a call of an integration adapter that is now in flight, or
\* the steps of the branch that a condition step is about to run
Immediate(result) == [kind |-> "result", result |-> result]
Raised(msg) == [kind |-> "raise", message |-> msg]
AdapterCall(name) == [kind |-> "adapter", adapter |-> name]

SelectBranchThenAlways(step, value) ==
    LET steps == GetOr(step, "then", <<>>)
        msg == IF value THEN "Condition evaluated to true"
               ELSE "Condition evaluated to false"
    IN IF steps = <<>> THEN Immediate(Ok(msg))
       ELSE [kind |-> "branch", branch |-> "then", steps |-> steps,
             message |-> msg]

SelectBranchFailsOnFalse(step, value) ==
    LET steps == IF value THEN GetOr(step, "then", <<>>) ELSE GetOr(step, "else", <<>>)
    IN IF ~value THEN Immediate(Failed("Condition evaluated to false"))
       ELSE IF steps = <<>> THEN Immediate(Ok("Condition evaluated to true"))
       ELSE [kind |-> "branch", branch |-> "then", steps |-> steps,
             message |-> "Condition evaluated to true"]

\* lines 336-351 and 361-376: the selected branch, then the condition's result
SelectBranch(step, value) ==
    LET steps == IF value THEN GetOr(step, "then", <<>>) ELSE GetOr(step, "else", <<>>)
        msg == IF value THEN "Condition evaluated to true"
               ELSE "Condition evaluated to false"
    IN IF steps = <<>> THEN Immediate(Ok(msg))
       ELSE [kind |-> "branch",
             branch |-> IF value THEN "then" ELSE "else",
             steps |-> steps,
             message |-> msg]

_execute_condition_step(step, params, results) ==
    LET condition == GetOr(step, "condition", EmptyDict)
        condition_type == GetOr(condition, "type", "")
    IN IF condition_type = "parameter"
       THEN IF condition.parameter \notin DOMAIN params
            THEN Immediate(Failed("Parameter not found"))
            ELSE IF EvaluateRaises(params[condition.parameter],
                                   GetOr(condition, "value", NoneValue),
                                   GetOr(condition, "operator", "eq"))
            THEN Raised("TypeError")
            ELSE SelectBranch(step,
                    _evaluate_condition(params[condition.parameter],
                                        GetOr(condition, "value", NoneValue),
                                        GetOr(condition, "operator", "eq")))
       ELSE IF condition_type = "result"
       THEN LET step_index == GetOr(condition, "step", 1) - 1
            IN IF step_index < 0 \/ step_index >= Len(results)
               THEN Immediate(Failed("Step result not found"))
               ELSE IF IsDict(results[step_index + 1].result)
                    THEN SelectBranch(step,
                            GetOr(results[step_index + 1].result, "success", FALSE))
                    ELSE Immediate(Failed("Unknown condition type"))
       ELSE Immediate(Failed("Unknown condition type"))

----------------------------------------------------------------------------
(* WorkflowManager: the loop body of _execute_workflow *)

\* truthiness of a parameter value that is a str or None
TruthyValue(v) == v # NoneValue /\ v # Str(<<>>)

\* str.lower() on a step type
LowerWord(w) ==
    CASE w = "Jenkins" -> "jenkins"
      [] w = "Notification" -> "notification"
      [] OTHER -> w

StepType(step) == LowerWord(GetOr(step, "type", ""))

\* lines 161-184
StepOutcome(step, params, results) ==
    LET step_type == StepType(step)
        step_params == _replace_parameters(GetOr(step, "parameters", EmptyDict), params)
    IN CASE step_type = "jenkins" ->
              IF ~TruthyValue(GetOr(step_params, "job", NoneValue))
              THEN Immediate(Failed("No Jenkins job specified"))
              ELSE AdapterCall("jenkins")
         [] step_type = "ansible" ->
              IF ~TruthyValue(GetOr(step_params, "playbook", NoneValue))
              THEN Immediate(Failed("No Ansible playbook specified"))
              ELSE AdapterCall("ansible")
         [] step_type = "terraform" -> AdapterCall("terraform")
         [] step_type = "condition" -> _execute_condition_step(step, params, results)
         [] step_type = "notification" -> Immediate(Ok("Notification sent"))
         [] OTHER -> Immediate(Text("Unknown step type"))

Top(stk) == stk[Len(stk)]
Pop(stk) == SubSeq(stk, 1, Len(stk) - 1)

\* the frame of one _execute_workflow invocation at the head of its loop
NewFrame(workflow_name, steps) ==
    [kind |-> "wf", name |-> workflow_name, steps |-> steps, i |-> 1,
     results |-> <<>>, state |-> "ready"]

\* where the step that the engine is working on stands in the workflow
RECURSIVE PathOf(_)
PathOf(stk) ==
    IF stk = <<>> THEN <<>>
    ELSE IF Len(stk) = 1 THEN <<[branch |-> "top", step |-> stk[1].i]>>
    ELSE IF Top(stk).kind = "cond"
         THEN Append(PathOf(Pop(stk)), [branch |-> Top(stk).branch, step |-> Top(stk).j])
         ELSE PathOf(Pop(stk))

\* Record: lines 186-196 and 198-208, the result of the current step is
\* appended and the invocation either goes on with the next step or returns
\* the formatted report.  Return: the invocation below the popped frame gets
\* the report; a condition step drops it and either starts the invocation of
\* its next branch step or returns its own result.
RECURSIVE Record(_, _), Return(_, _)
Record(stk, result) ==
    LET f == Top(stk)
        results == Append(f.results,
                          [step |-> f.i, type |-> StepType(f.steps[f.i]),
                           result |-> result])
    IN IF IsFailure(result) \/ f.i = Len(f.steps)
       THEN Return(Pop(stk), _format_workflow_result(f.name, results))
       ELSE [stack |-> Append(Pop(stk),
                              [f EXCEPT !.i = f.i + 1, !.results = results,
                                        !.state = "ready"]),
             report |-> NoReport]

ReturnPropagates(stk, rep) ==
    IF stk = <<>> THEN [stack |-> <<>>, report |-> rep]
    ELSE LET c == Top(stk)
         IN IF rep.header = "failed"
            THEN Record(Pop(stk), Failed("branch failed"))
            ELSE IF c.j < Len(c.steps)
            THEN [stack |-> Pop(stk) \o
                            <<[c EXCEPT !.j = c.j + 1],
                              NewFrame("Unnamed workflow", <<c.steps[c.j + 1]>>)>>,
                  report |-> NoReport]
            ELSE Record(Pop(stk), Ok(c.message))

Return(stk, rep) ==
    IF stk = <<>> THEN [stack |-> <<>>, report |-> rep]
    ELSE LET c == Top(stk)
         IN IF c.j < Len(c.steps)
            THEN [stack |-> Pop(stk) \o
                            <<[c EXCEPT !.j = c.j + 1],
                              NewFrame("Unnamed workflow", <<c.steps[c.j + 1]>>)>>,
                  report |-> NoReport]
            ELSE Record(Pop(stk), Ok(c.message))

----------------------------------------------------------------------------
(* Workflow templates *)

Placeholder(name) == Str(<<"$", "{", name, "}">>)

JenkinsStep == [type |-> "jenkins", parameters |-> [job |-> Str(<<"build">>)]]
JenkinsNoJob == [type |-> "Jenkins"]
AnsibleStep == [type |-> "ansible", parameters |-> [playbook |-> Placeholder("service")]]
TerraformStep == [type |-> "terraform"]
NotifyStep == [type |-> "Notification", parameters |-> [message |-> Placeholder("service")]]
ShellStep == [type |-> "shell"]

CountCondition ==
    [type |-> "condition",
     condition |-> [type |-> "parameter", parameter |-> "count",
                    value |-> Str(<<"3">>), operator |-> "eq"],
     then |-> <<NotifyStep, AnsibleStep>>,
     else |-> <<TerraformStep>>]

ResultCondition ==
    [type |-> "condition",
     condition |-> [type |-> "result", step |-> 1],
     then |-> <<JenkinsStep, NotifyStep>>,
     else |-> <<NotifyStep>>]

MatchesCondition ==
    [type |-> "condition",
     condition |-> [type |-> "parameter", parameter |-> "environment",
                    value |-> Str(<<"production">>), operator |-> "matches"],
     then |-> <<TerraformStep>>,
     else |-> <<NotifyStep>>]

TopSteps == {JenkinsStep, JenkinsNoJob, NotifyStep, ShellStep,
             CountCondition, ResultCondition}

RECURSIVE StepLists(_)
StepLists(n) ==
    IF n = 0 THEN {<<>>}
    ELSE LET shorter == StepLists(n - 1)
         IN shorter \cup {Append(l, st) : l \in shorter, st \in TopSteps}

\* the workflows handed to _execute_workflow
Workflows == {[steps |-> l] : l \in StepLists(MaxSteps)}

\* the parameter maps handed to _execute_workflow
ParameterMaps ==
    {parse("scale", [service |-> Str(<<"api">>), count |-> Str(<<"3">>)]).parameters,
     parse("scale", [service |-> Str(<<"api">>)]).parameters,
     parse("deploy", [service |-> Str(<<"api">>)]).parameters}

\* what the files under templates_path can hold
StoreWorkflows ==
    {[name |-> "rollout", steps |-> <<JenkinsStep, CountCondition, NotifyStep>>],
     [name |-> "probe", steps |-> <<ShellStep, JenkinsNoJob, NotifyStep>>],
     [name |-> "gate", steps |-> <<MatchesCondition, NotifyStep>>],
     [name |-> "empty", steps |-> <<>>],
     [description |-> "no steps key"]}

----------------------------------------------------------------------------
(* Actions *)

\* the local variables of the running call of process_message and of the
\* calls it makes
Frame ==
    [pc |-> pc, user_id |-> user_id, message |-> message, intent |-> intent,
     entities |-> entities, confidence |-> confidence, command |-> command,
     reply |-> reply, calls |-> calls, workflow |-> workflow,
     parameters |-> parameters, stack |-> stack, dispatched |-> dispatched,
     inflight |-> inflight, report |-> report,
     declared_params |-> declared_params, handler_params |-> handler_params,
     error_log |-> error_log]

Init ==
    /\ pc = "idle"
    /\ templates_path \in {"str", "Path"}
    /\ user_id = None
    /\ message = <<>>
    /\ intent = None
    /\ entities = EmptyDict
    /\ confidence = 0
    /\ command = NoCommand
    /\ reply = None
    /\ calls = {}
    /\ workflow = NoneValue
    /\ parameters = EmptyDict
    /\ stack = <<>>
    /\ dispatched = <<>>
    /\ inflight = {}
    /\ report = NoReport
    /\ declared_params = EmptyDict
    /\ handler_params = EmptyDict
    /\ error_log = <<>>
    /\ running = 1
    /\ suspended = Frame
    /\ cancel_signal = FALSE
    /\ command_templates = _load_command_templates
    /\ tf_pc = "idle"
    /\ tf_action = None
    /\ tf_workspace = None
    /\ temp_var_file = None
    /\ tf_commands = <<>>
    /\ tf_result = NoneValue
    /\ jk_pc = "idle"
    /\ client = TRUE
    /\ wait = FALSE
    /\ client_calls = <<>>
    /\ polls = 0
    /\ build_number = None
    /\ jk_result = NoneValue

BelowOrAtThreshold(c) == c <= confidence_threshold

\* confidence < self.config['nlp']['confidence_threshold']
BelowThreshold(c) == c < confidence_threshold

\* process_message, lines 85-91
ReceiveMessage(u, m) ==
    /\ pc = "idle"
    /\ user_id' = u
    /\ message' = m
    /\ calls' = calls \cup {"_is_user_authorized"}
    /\ IF ~_is_user_authorized(u, m)
       THEN reply' = "not authorized" /\ pc' = "done"
       ELSE reply' = reply /\ pc' = "nlp"
    /\ UNCHANGED <<envVars, intent, entities, confidence, command>>
    /\ UNCHANGED engineVars

\* process_message, lines 93-99: NLPProcessor.process returns
NlpReturns(i, e, c) ==
    /\ pc = "nlp"
    /\ intent' = i
    /\ entities' = e
    /\ confidence' = c
    /\ calls' = calls \cup {"nlp.process"}
    /\ IF BelowThreshold(c)
       THEN reply' = "clarify" /\ pc' = "done"
       ELSE reply' = reply /\ pc' = "parse"
    /\ UNCHANGED <<envVars, user_id, message, command>>
    /\ UNCHANGED engineVars

\* process_message, line 94: NLPProcessor.process raises (its constructor
\* sets none of nlp, intent_classifier, custom_entities); nothing catches it
NlpRaises ==
    /\ pc = "nlp"
    /\ calls' = calls \cup {"nlp.process"}
    /\ pc' = "raised"
    /\ UNCHANGED <<envVars, user_id, message, intent, entities,
                   confidence, command, reply>>
    /\ UNCHANGED engineVars

\* process_message, lines 101-104
ParseCommand ==
    /\ pc = "parse"
    /\ command' = parse(intent, entities)
    /\ command_templates' = IF IsNone(command') THEN command_templates
                            ELSE WriteThrough(intent, command'.parameters)
    /\ calls' = calls \cup {"parse"}
    /\ IF IsNone(command')
       THEN reply' = "not understood" /\ pc' = "done"
       ELSE reply' = reply /\ pc' = "approval"
    /\ UNCHANGED <<callerVars, user_id, message, intent, entities, confidence>>
    /\ UNCHANGED engineVars

\* process_message, lines 106-109
CheckApproval ==
    /\ pc = "approval"
    /\ calls' = calls \cup {"_requires_approval"}
    /\ IF _requires_approval(message)
       THEN reply' = "approval required" /\ pc' = "done"
       ELSE reply' = reply /\ pc' = "execute"
    /\ UNCHANGED <<envVars, user_id, message, intent, entities,
                   confidence, command>>
    /\ UNCHANGED engineVars

\* the call of execute returns `text` without having run a step
ExecuteReplies(text) ==
    /\ calls' = calls \cup {"execute"}
    /\ reply' = text
    /\ pc' = "done"
    /\ UNCHANGED <<envVars, user_id, message, intent, entities,
                   confidence, command>>
    /\ UNCHANGED engineVars

ExecuteRaisesUncaught(text) ==
    /\ calls' = calls \cup {"execute"}
    /\ pc' = "raised"
    /\ UNCHANGED <<envVars, user_id, message, intent, entities,
                   confidence, command, reply>>
    /\ UNCHANGED engineVars

\* process_message, lines 112-117: the call of execute raises and the except
\* clause turns the exception into the reply
ExecuteRaises(text) == ExecuteReplies(text)

\* execute, lines 42-43: _handle_help reads self.default_templates, which no
\* code sets; process_message catches the AttributeError (lines 115-117)
ExecuteHelp ==
    /\ pc = "execute"
    /\ command.action = "help"
    /\ ExecuteRaises("error executing command")

\* execute, line 46, _load_workflow_template, line 126: templates_path is the
\* str of the configuration and str / str raises TypeError outside every try
\* of execute; process_message catches it (lines 115-117)
ExecuteLoadRaises ==
    /\ pc = "execute"
    /\ command.action # "help"
    /\ Truthy(CommandWorkflow(command))
    /\ templates_path = "str"
    /\ ExecuteRaises("error executing command")

\* execute, lines 46-48: no workflow name, no such file, a file that does not
\* parse or an empty document
ExecuteNotFound ==
    /\ pc = "execute"
    /\ command.action # "help"
    /\ \/ ~Truthy(CommandWorkflow(command))
       \/ templates_path = "Path"
    /\ ExecuteReplies("workflow template not found")

\* execute, lines 51-56: the document is not a mapping, workflow.get raises
\* inside the try
ExecuteMalformed ==
    /\ pc = "execute"
    /\ command.action # "help"
    /\ Truthy(CommandWorkflow(command))
    /\ templates_path = "Path"
    /\ ExecuteReplies("error executing workflow")

\* _execute_workflow, lines 150-159
StartWorkflow(wf, params) ==
    LET workflow_name == GetOr(wf, "name", "Unnamed workflow")
        steps == GetOr(wf, "steps", <<>>)
    IN /\ workflow' = wf
       /\ parameters' = params
       /\ error_log' = <<>>
       /\ UNCHANGED <<declared_params, handler_params>>
       /\ dispatched' = <<>>
       /\ inflight' = {}
       /\ IF steps = <<>>
          THEN /\ stack' = <<>>
               /\ report' = [workflow |-> workflow_name,
                             header |-> "has no steps to execute",
                             lines |-> <<>>]
               /\ reply' = "report"
               /\ pc' = "done"
          ELSE /\ stack' = <<NewFrame(workflow_name, steps)>>
               /\ report' = NoReport
               /\ reply' = reply
               /\ pc' = "engine"

\* execute, lines 46-53 with a template that loads
ExecuteWorkflow(wf) ==
    /\ pc = "execute"
    /\ command.action # "help"
    /\ Truthy(CommandWorkflow(command))
    /\ templates_path = "Path"
    /\ calls' = calls \cup {"execute"}
    /\ StartWorkflow(wf, command.parameters)
    /\ UNCHANGED <<envVars, user_id, message, intent, entities,
                   confidence, command>>

\* _execute_workflow called on its own
CallExecuteWorkflow(wf, params) ==
    /\ pc = "idle"
    /\ StartWorkflow(wf, params)
    /\ UNCHANGED <<envVars, user_id, message, intent, entities,
                   confidence, command, calls>>

\* the engine moves to the state `next`; when the outermost invocation has
\* returned, execute and process_message return the report
Continue(next) ==
    /\ stack' = next.stack
    /\ report' = next.report
    /\ pc' = IF next.stack = <<>> THEN "done" ELSE pc
    /\ reply' = IF next.stack = <<>> THEN "report" ELSE reply
    /\ UNCHANGED <<envVars, user_id, message, intent, entities,
                   confidence, command, calls, workflow, parameters>>

ReadyWhileWaiting ==
    pc = "engine" /\ stack # <<>> /\ Top(stack).state \in {"ready", "waiting"}

\* the loop of the running invocation is at the head of its body
Ready == pc = "engine" /\ stack # <<>> /\ Top(stack).state = "ready"

CurrentStep == Top(stack).steps[Top(stack).i]

CurrentOutcomeOnTopResults == StepOutcome(CurrentStep, parameters, stack[1].results)

CurrentOutcome == StepOutcome(CurrentStep, parameters, Top(stack).results)

ReplaceStepParametersInPlace ==
    /\ declared_params' =
          _replace_parameters(GetOr(CurrentStep, "parameters", EmptyDict), parameters)
    /\ handler_params' = declared_params'

\* lines 163-166: the parameters of the step, then with placeholders replaced
ReplaceStepParameters ==
    /\ declared_params' = GetOr(CurrentStep, "parameters", EmptyDict)
    /\ handler_params' = _replace_parameters(declared_params', parameters)

CaughtAsSuccess(msg) == Ok(msg)

\* lines 198-206: the result recorded for an exception
Caught(msg) == Failed(msg)

\* lines 195 and 199: the failure of the current step is logged
LogFailure(result) ==
    error_log' = IF IsFailure(result) THEN Append(error_log, PathOf(stack))
                 ELSE error_log

\* a step whose handler returns or raises at once: notification, unknown
\* type, a jenkins or ansible step without job or playbook, a condition that
\* fails, whose evaluation raises or whose selected branch is empty
RunStep ==
    /\ Ready
    /\ ReplaceStepParameters
    /\ CurrentOutcome.kind \in {"result", "raise"}
    /\ dispatched' = Append(dispatched, PathOf(stack))
    /\ inflight' = inflight
    /\ LET result == IF CurrentOutcome.kind = "raise"
                      THEN Caught(CurrentOutcome.message)
                      ELSE CurrentOutcome.result
       IN LogFailure(result) /\ Continue(Record(stack, result))

\* a step that calls an integration adapter (lines 275, 293, 309)
CallAdapter ==
    /\ Ready
    /\ ReplaceStepParameters
    /\ CurrentOutcome.kind = "adapter"
    /\ dispatched' = Append(dispatched, PathOf(stack))
    /\ inflight' = inflight \cup {PathOf(stack)}
    /\ stack' = Append(Pop(stack), [Top(stack) EXCEPT !.state = "waiting"])
    /\ UNCHANGED <<pc, envVars, workflow, parameters, report, error_log>>
    /\ UNCHANGED appVars

\* the adapter returns its result dictionary
AdapterReturns(success) ==
    /\ pc = "engine" /\ stack # <<>> /\ Top(stack).state = "waiting"
    /\ inflight' = inflight \ {PathOf(stack)}
    /\ dispatched' = dispatched
    /\ UNCHANGED <<declared_params, handler_params>>
    /\ LET result == IF success THEN Ok("adapter succeeded")
                      ELSE Failed("adapter failed")
       IN LogFailure(result) /\ Continue(Record(stack, result))

\* the adapter call raises (self.jenkins, self.ansible and self.terraform
\* are set by no code): lines 198-206
AdapterRaises ==
    /\ pc = "engine" /\ stack # <<>> /\ Top(stack).state = "waiting"
    /\ inflight' = inflight \ {PathOf(stack)}
    /\ dispatched' = dispatched
    /\ UNCHANGED <<declared_params, handler_params>>
    /\ LogFailure(Caught("exception"))
    /\ Continue(Record(stack, Caught("exception")))

\* a condition step whose selected branch has steps: the first branch step
\* starts its own _execute_workflow invocation (lines 340-342, 348-350)
EnterBranch ==
    /\ Ready
    /\ ReplaceStepParameters
    /\ CurrentOutcome.kind = "branch"
    /\ dispatched' = Append(dispatched, PathOf(stack))
    /\ inflight' = inflight
    /\ stack' = Pop(stack) \o
                <<[Top(stack) EXCEPT !.state = "branching"],
                  [kind |-> "cond", branch |-> CurrentOutcome.branch,
                   steps |-> CurrentOutcome.steps, j |-> 1,
                   message |-> CurrentOutcome.message],
                  NewFrame("Unnamed workflow", <<CurrentOutcome.steps[1]>>)>>
    /\ UNCHANGED <<pc, envVars, workflow, parameters, report, error_log>>
    /\ UNCHANGED appVars

EngineNext ==
    \/ RunStep
    \/ CallAdapter
    \/ \E success \in BOOLEAN : AdapterReturns(success)
    \/ AdapterRaises
    \/ EnterBranch

Next ==
    \/ \E u \in Users, m \in Messages : ReceiveMessage(u, m)
    \/ \E i \in Intents, e \in EntityMaps, c \in Confidences : NlpReturns(i, e, c)
    \/ NlpRaises
    \/ ParseCommand
    \/ CheckApproval
    \/ ExecuteHelp
    \/ ExecuteLoadRaises
    \/ ExecuteNotFound
    \/ ExecuteMalformed
    \/ \E w \in StoreWorkflows : ExecuteWorkflow(w)
    \/ EngineNext

Spec == Init /\ [][Next]_vars

\* _execute_workflow on every workflow and parameter map
InitEngine == Init /\ templates_path = "Path"

CallOnWorkflow ==
    /\ pc = "idle"
    /\ \E w \in Workflows, p \in ParameterMaps : CallExecuteWorkflow(w, p)

NextEngine ==
    \/ CallOnWorkflow
    \/ EngineNext

SpecEngine == InitEngine /\ [][NextEngine]_vars

\* condition steps: every operator of _evaluate_condition and one it does
\* not know, a str and an int to compare with, a result to look at, a
\* condition type without handler, on branches of up to MaxBranch steps
Operators ==
    {"eq", "ne", "gt", "lt", "ge", "le", "contains", "not_contains", "matches"}

Conditions ==
    {[type |-> "parameter", parameter |-> "count", value |-> v, operator |-> op] :
        v \in {Str(<<"3">>), [int |-> 3]}, op \in Operators}
        \cup {[type |-> "parameter", parameter |-> "service",
               value |-> Str(<<"3">>), operator |-> op] :
                  op \in {"gt", "lt", "ge", "le"}}
        \cup {[type |-> "result", step |-> n] : n \in {1, 2}}
        \cup {[type |-> "file"]}

RECURSIVE ListsOver(_, _)
ListsOver(S, n) ==
    IF n = 0 THEN {<<>>}
    ELSE LET shorter == ListsOver(S, n - 1)
         IN shorter \cup {Append(l, st) : l \in shorter, st \in S}

ThenBranches == ListsOver({NotifyStep, JenkinsNoJob, JenkinsStep}, MaxBranch)
ElseBranches == ListsOver({TerraformStep}, MaxBranch)

ConditionSteps ==
    {[type |-> "condition", condition |-> c, then |-> t, else |-> e] :
        c \in Conditions, t \in ThenBranches, e \in ElseBranches}

ConditionWorkflows ==
    {[steps |-> <<first, c, NotifyStep>>] :
        first \in {JenkinsStep, ShellStep}, c \in ConditionSteps}

\* _execute_workflow on the workflows with a condition step
CallOnConditionWorkflow ==
    /\ pc = "idle"
    /\ \E w \in ConditionWorkflows, p \in ParameterMaps :
          CallExecuteWorkflow(w, p)

NextCondition ==
    \/ CallOnConditionWorkflow
    \/ EngineNext

SpecCondition == InitEngine /\ [][NextCondition]_vars

\* the values a workflow file can declare for a step parameter
Leaves ==
    {Placeholder("a"), Placeholder("c"),
     Str(<<"x", "$", "{", "a", "}">>),
     Str(<<"$", "{", "a", "}", "$", "{", "b", "}">>),
     Str(<<"build">>), [int |-> 3], NoneValue}

RECURSIVE Values(_)
Values(depth) ==
    IF depth = 0 THEN Leaves
    ELSE LET below == Values(depth - 1)
         IN Leaves
            \cup {[dict |-> [inner |-> v]] : v \in below}
            \cup {[list |-> <<v, w>>] :
                      v \in below, w \in {Placeholder("a"), Str(<<"build">>)}}

DeclaredParameters ==
    {[job |-> v] : v \in Values(MaxDepth)}
        \cup {[job |-> v, wait |-> w] : v \in Leaves, w \in Leaves}

\* command parameters whose values are texts of the user or structured
SubstitutionMaps ==
    {[a |-> Placeholder("b"), b |-> Str(<<"api">>)],
     [a |-> Str(<<"api">>)],
     [b |-> Str(<<"api">>)],
     [a |-> [list |-> <<Str(<<"api">>)>>], b |-> Placeholder("a")],
     EmptyDict}

\* _replace_parameters called on its own (line 166)
CallReplaceParameters(sp, params) ==
    /\ pc = "idle"
    /\ declared_params' = sp
    /\ parameters' = params
    /\ handler_params' = _replace_parameters(sp, params)
    /\ pc' = "done"
    /\ UNCHANGED <<envVars, workflow, stack, dispatched, inflight, report,
                   error_log>>
    /\ UNCHANGED appVars

NextReplace ==
    /\ pc = "idle"
    /\ \E sp \in DeclaredParameters, p \in SubstitutionMaps :
          CallReplaceParameters(sp, p)

SpecReplace == InitEngine /\ [][NextReplace]_vars

\* condition steps inside the branches of a condition step: a result-type
\* condition that names step n, and a parameter-type condition that holds one
NestedResult(n) ==
    [type |-> "condition",
     condition |-> [type |-> "result", step |-> n],
     then |-> <<NotifyStep>>,
     else |-> <<TerraformStep>>]

NestedParameter ==
    [type |-> "condition",
     condition |-> [type |-> "parameter", parameter |-> "service",
                    value |-> Str(<<"api">>), operator |-> "eq"],
     then |-> <<NestedResult(1), NotifyStep>>,
     else |-> <<>>]

NestedBranches ==
    ListsOver({NestedResult(1), NestedResult(2), NestedParameter, JenkinsStep},
              MaxBranch) \ {<<>>}

NestedWorkflows ==
    {[steps |-> <<JenkinsStep,
                  [type |-> "condition", condition |-> c,
                   then |-> b, else |-> <<NestedResult(1)>>],
                  NotifyStep>>] :
        c \in {[type |-> "result", step |-> 1],
               [type |-> "parameter", parameter |-> "count",
                value |-> Str(<<"3">>), operator |-> "eq"]},
        b \in NestedBranches}

CallOnNestedWorkflow ==
    /\ pc = "idle"
    /\ \E w \in NestedWorkflows, p \in ParameterMaps : CallExecuteWorkflow(w, p)

NextNested ==
    \/ CallOnNestedWorkflow
    \/ EngineNext

SpecNested == InitEngine /\ [][NextNested]_vars

\* CommandParser.parse called again and again on one parser, and a caller
\* that edits the parameters of the command it got
CallParse(i, e) ==
    /\ pc \in {"idle", "parsed", "edited"}
    /\ intent' = i
    /\ entities' = e
    /\ command' = parse(i, e)
    /\ command_templates' = IF IsNone(command') THEN command_templates
                            ELSE WriteThrough(i, command'.parameters)
    /\ calls' = calls \cup {"parse"}
    /\ pc' = "parsed"
    /\ UNCHANGED <<callerVars, user_id, message, confidence, reply>>
    /\ UNCHANGED engineVars

\* the keys and the value the caller writes
EditKeys == {"environment", "note"}
EditValue == Str(<<"build">>)

\* command["parameters"][key] = value, by the caller of parse
EditParameters(key) ==
    /\ pc = "parsed"
    /\ ~IsNone(command)
    /\ command' = [command EXCEPT !.parameters = Put(command.parameters, key, EditValue)]
    /\ command_templates' = WriteThrough(intent, command'.parameters)
    /\ pc' = "edited"
    /\ UNCHANGED <<callerVars, user_id, message, intent, entities, confidence,
                   reply, calls>>
    /\ UNCHANGED engineVars

NextParse ==
    \/ \E i \in Intents, e \in EntityMaps : CallParse(i, e)
    \/ \E key \in EditKeys : EditParameters(key)

SpecParse == Init /\ [][NextParse]_vars

\* the caller of a running invocation gives it up (it disconnects, its
\* deadline passes): _execute_workflow takes no argument and reads no
\* attribute through which it could learn of it
Cancel ==
    /\ pc = "engine"
    /\ ~cancel_signal
    /\ cancel_signal' = TRUE
    /\ UNCHANGED <<templates_path, running, suspended, command_templates,
                   adapterVars>>
    /\ UNCHANGED appVars
    /\ UNCHANGED engineVars
    /\ pc' = pc

NextCancel ==
    \/ CallOnWorkflow
    \/ EngineNext
    \/ Cancel

SpecCancel == InitEngine /\ [][NextCancel]_vars

\* SlackBot._handle_message starts one thread per message (slack_bot.py,
\* line 145) and each thread calls process_message on the one ChatOpsApp.
\* Two threads: the message each of them was started with, from one user
Threads == {1, 2}
ThreadMessages == <<<<"r">>, <<"p">>>>
ThreadUser == "alice"

\* what NLPProcessor.process makes of the messages of the threads
ThreadIntents == {"scale", "help"}
ThreadEntities == [service |-> Str(<<"api">>), count |-> Str(<<"3">>)]

SwitchKeepsStack ==
    /\ running' = 3 - running
    /\ suspended' = Frame
    /\ pc' = suspended.pc
    /\ user_id' = suspended.user_id
    /\ message' = suspended.message
    /\ intent' = suspended.intent
    /\ entities' = suspended.entities
    /\ confidence' = suspended.confidence
    /\ command' = suspended.command
    /\ reply' = suspended.reply
    /\ calls' = suspended.calls
    /\ workflow' = suspended.workflow
    /\ parameters' = suspended.parameters
    /\ stack' = stack
    /\ dispatched' = suspended.dispatched
    /\ inflight' = suspended.inflight
    /\ report' = suspended.report
    /\ declared_params' = suspended.declared_params
    /\ handler_params' = suspended.handler_params
    /\ error_log' = suspended.error_log
    /\ UNCHANGED <<templates_path, cancel_signal, command_templates, adapterVars>>

\* the interpreter passes from the running thread to the other one: the
\* arguments and local variables of a call (text, user_id, intent, entities,
\* command, workflow, parameters, results, step, ...) belong to the frames of
\* the thread, the attributes of the ChatOpsApp, of the CommandParser and of
\* the WorkflowManager, which no method assigns after __init__, to both
Switch ==
    /\ running' = 3 - running
    /\ suspended' = Frame
    /\ pc' = suspended.pc
    /\ user_id' = suspended.user_id
    /\ message' = suspended.message
    /\ intent' = suspended.intent
    /\ entities' = suspended.entities
    /\ confidence' = suspended.confidence
    /\ command' = suspended.command
    /\ reply' = suspended.reply
    /\ calls' = suspended.calls
    /\ workflow' = suspended.workflow
    /\ parameters' = suspended.parameters
    /\ stack' = suspended.stack
    /\ dispatched' = suspended.dispatched
    /\ inflight' = suspended.inflight
    /\ report' = suspended.report
    /\ declared_params' = suspended.declared_params
    /\ handler_params' = suspended.handler_params
    /\ error_log' = suspended.error_log
    /\ UNCHANGED <<templates_path, cancel_signal, command_templates, adapterVars>>

\* the thread calls process_message with the message it was started with
ThreadReceives ==
    /\ pc = "idle"
    /\ ReceiveMessage(ThreadUser, ThreadMessages[running])

ThreadNlpReturns ==
    /\ pc = "nlp"
    /\ \E i \in ThreadIntents : NlpReturns(i, ThreadEntities, 92)

ThreadLoads ==
    /\ pc = "execute"
    /\ \E w \in StoreWorkflows : ExecuteWorkflow(w)

NextThreads ==
    \/ ThreadReceives
    \/ ThreadNlpReturns
    \/ NlpRaises
    \/ ParseCommand
    \/ CheckApproval
    \/ ExecuteHelp
    \/ ExecuteLoadRaises
    \/ ExecuteNotFound
    \/ ExecuteMalformed
    \/ ThreadLoads
    \/ EngineNext
    \/ Switch

SpecThreads == Init /\ [][NextThreads]_vars

----------------------------------------------------------------------------
(* TerraformIntegration.run_terraform (integrations/terraform_integration.py) *)

\* everything that belongs to the message pipeline and the engine
pipelineVars == <<pc, templates_path, running, suspended, cancel_signal,
                  command_templates, appVars, engineVars>>

valid_actions == {"init", "plan", "apply", "destroy", "output", "validate", "refresh"}

\* the actions and workspaces run_terraform is called with
TerraformActions == {"init", "plan", "apply", "import"}
TerraformWorkspaces == {"default", "staging"}

\* _run_terraform_command: the result for the return code of the command
CommandResult(cmd, success) ==
    [success |-> success, command |-> cmd,
     message |-> IF success THEN "completed successfully"
                 ELSE "failed with return code"]

\* a terraform command that was run, with the line of run_terraform that ran it
Ran(cmd, line, success) == [command |-> cmd, line |-> line, success |-> success]

\* os.unlink(temp_var_file.name) under its guard (lines 130-131, 139-140)
Unlink(file) == IF file = "exists" THEN "deleted" ELSE file

\* the return statements of lines 91, 103 and 110: nothing is cleaned up
LeftAtEarlyReturn(file) == file

\* lines 93-94: where run_terraform goes on after init
AfterInit(workspace) ==
    IF workspace # "default" THEN "workspace list" ELSE "action"

AfterValidationSkipsInit(action, workspace) == AfterInit(workspace)

\* lines 86-87: where run_terraform goes on after its preparations
AfterValidation(action, workspace) ==
    IF action # "init" THEN "init" ELSE AfterInit(workspace)

\* run_terraform is left with the result
TerraformReturns(result) ==
    /\ tf_result' = result
    /\ tf_pc' = "returned"

\* lines 57-83: the action is validated and the temporary variable file is
\* written; `created` is FALSE when NamedTemporaryFile or json.dump raises
CallRunTerraform(action, workspace, vars_dict, created) ==
    /\ tf_pc = "idle"
    /\ tf_action' = action
    /\ tf_workspace' = workspace
    /\ tf_commands' = <<>>
    /\ IF action \notin valid_actions
       THEN /\ temp_var_file' = None
            /\ TerraformReturns(Failed("Invalid Terraform action"))
       ELSE IF vars_dict /\ ~created
       THEN /\ temp_var_file' = None
            /\ TerraformReturns(Failed("Error creating temporary var file"))
       ELSE /\ temp_var_file' = IF vars_dict THEN "exists" ELSE None
            /\ tf_result' = NoneValue
            /\ tf_pc' = AfterValidation(action, workspace)
    /\ UNCHANGED <<pipelineVars, jenkinsVars>>

\* lines 87-91: terraform init before every other action
TerraformInit(success) ==
    /\ tf_pc = "init"
    /\ tf_commands' = Append(tf_commands, Ran("init", 88, success))
    /\ IF ~success
       THEN /\ temp_var_file' = LeftAtEarlyReturn(temp_var_file)
            /\ TerraformReturns(CommandResult("init", FALSE))
       ELSE /\ temp_var_file' = temp_var_file
            /\ tf_result' = tf_result
            /\ tf_pc' = AfterInit(tf_workspace)
    /\ UNCHANGED <<tf_action, tf_workspace>>
    /\ UNCHANGED <<pipelineVars, jenkinsVars>>

\* lines 94-97: terraform workspace list; `listed` is whether the name of the
\* workspace occurs in its output
TerraformWorkspaceList(success, listed) ==
    /\ tf_pc = "workspace list"
    /\ tf_commands' = Append(tf_commands, Ran("workspace list", 96, success))
    /\ tf_pc' = IF listed THEN "workspace select" ELSE "workspace new"
    /\ UNCHANGED <<tf_action, tf_workspace, temp_var_file, tf_result>>
    /\ UNCHANGED <<pipelineVars, jenkinsVars>>

\* lines 98-110: terraform workspace new or terraform workspace select
TerraformWorkspace(success) ==
    /\ tf_pc \in {"workspace new", "workspace select"}
    /\ tf_commands' = Append(tf_commands,
                             Ran(tf_pc, IF tf_pc = "workspace new" THEN 100 ELSE 107,
                                 success))
    /\ IF ~success
       THEN /\ temp_var_file' = LeftAtEarlyReturn(temp_var_file)
            /\ TerraformReturns(CommandResult(tf_pc, FALSE))
       ELSE /\ temp_var_file' = temp_var_file
            /\ tf_result' = tf_result
            /\ tf_pc' = "action"
    /\ UNCHANGED <<tf_action, tf_workspace>>
    /\ UNCHANGED <<pipelineVars, jenkinsVars>>

\* lines 112-133: the requested command, then the clean-up
TerraformAction(success) ==
    /\ tf_pc = "action"
    /\ tf_commands' = Append(tf_commands, Ran(tf_action, 127, success))
    /\ temp_var_file' = Unlink(temp_var_file)
    /\ TerraformReturns(CommandResult(tf_action, success))
    /\ UNCHANGED <<tf_action, tf_workspace>>
    /\ UNCHANGED <<pipelineVars, jenkinsVars>>

\* lines 135-142: a statement of the try block raises
TerraformRaises ==
    /\ tf_pc \in {"init", "workspace list", "workspace new", "workspace select",
                  "action"}
    /\ temp_var_file' = Unlink(temp_var_file)
    /\ TerraformReturns(Failed("Error running Terraform"))
    /\ UNCHANGED <<tf_action, tf_workspace, tf_commands>>
    /\ UNCHANGED <<pipelineVars, jenkinsVars>>

NextTerraform ==
    \/ \E action \in TerraformActions, workspace \in TerraformWorkspaces,
          vars_dict \in BOOLEAN, created \in BOOLEAN :
            CallRunTerraform(action, workspace, vars_dict, created)
    \/ \E success \in BOOLEAN : TerraformInit(success)
    \/ \E success \in BOOLEAN, listed \in BOOLEAN :
            TerraformWorkspaceList(success, listed)
    \/ \E success \in BOOLEAN : TerraformWorkspace(success)
    \/ \E success \in BOOLEAN : TerraformAction(success)
    \/ TerraformRaises

SpecTerraform == Init /\ [][NextTerraform]_vars

\* execute under the scheduling of the code: _execute_workflow runs in one
\* thread that goes on whenever it can take a step (lines 158-208), and the
\* adapter calls of lines 275, 293 and 309 are synchronous calls that come
\* back with a result or an exception
EngineSteps == RunStep \/ CallAdapter \/ EnterBranch

AdapterEnds == (\E success \in BOOLEAN : AdapterReturns(success)) \/ AdapterRaises

EngineRuns == WF_vars(EngineSteps)

AdapterCallsMayHang == WF_vars(pc = "idle" /\ AdapterEnds)

AdapterCallsReturn == WF_vars(AdapterEnds)

SpecExecute ==
    InitEngine /\ [][NextNested]_vars /\ EngineRuns /\ AdapterCallsReturn

----------------------------------------------------------------------------
(* JenkinsIntegration.trigger_job (integrations/jenkins_integration.py) *)

TimeoutResultFails(msg) == Failed(msg)

\* the results of lines 90-94 and 148-154: a timeout is reported as success
TimeoutResult(msg) == Ok(msg)

\* trigger_job is left with the result
JenkinsReturns(result) ==
    /\ jk_result' = result
    /\ jk_pc' = "returned"

\* lines 60-61
CallTriggerJob(has_client, w) ==
    /\ jk_pc = "idle"
    /\ client' = has_client
    /\ wait' = w
    /\ IF ~has_client
       THEN JenkinsReturns(Failed("Jenkins client not initialized"))
       ELSE jk_pc' = "get_job_info" /\ jk_result' = jk_result
    /\ UNCHANGED <<client_calls, polls, build_number>>
    /\ UNCHANGED <<pipelineVars, terraformVars>>

\* lines 64-69: get_job_info returns, raises JenkinsException, or raises an
\* exception of another class, which leaves trigger_job
GetJobInfo(outcome) ==
    /\ jk_pc = "get_job_info"
    /\ client_calls' = Append(client_calls, "get_job_info")
    /\ CASE outcome = "found" -> jk_pc' = "build_job" /\ jk_result' = jk_result
         [] outcome = "JenkinsException" -> JenkinsReturns(Failed("Job not found"))
         [] OTHER -> jk_pc' = "raised" /\ jk_result' = jk_result
    /\ UNCHANGED <<client, wait, polls, build_number>>
    /\ UNCHANGED <<pipelineVars, terraformVars>>

\* lines 72-79 and 109-111
BuildJob(raises) ==
    /\ jk_pc = "build_job"
    /\ client_calls' = Append(client_calls, "build_job")
    /\ IF raises
       THEN JenkinsReturns(Failed("Error triggering job"))
       ELSE jk_pc' = "queue" /\ jk_result' = jk_result
    /\ polls' = 0
    /\ UNCHANGED <<client, wait, build_number>>
    /\ UNCHANGED <<pipelineVars, terraformVars>>

\* lines 81-86 and 96-107: one pass of the loop that waits for the build to
\* start, while the 30 seconds have not passed
PollQueue(outcome) ==
    /\ jk_pc = "queue"
    /\ polls < MaxPolls
    /\ client_calls' = Append(client_calls, "get_queue_item")
    /\ CASE outcome = "started" ->
              /\ build_number' = "7"
              /\ polls' = 0
              /\ IF wait
                 THEN jk_pc' = "build" /\ jk_result' = jk_result
                 ELSE JenkinsReturns(Ok("started with build number"))
         [] outcome = "queued" ->
              /\ build_number' = build_number
              /\ polls' = polls + 1
              /\ jk_pc' = jk_pc /\ jk_result' = jk_result
         [] OTHER ->
              /\ build_number' = build_number
              /\ polls' = polls
              /\ JenkinsReturns(Failed("Error triggering job"))
    /\ UNCHANGED <<client, wait>>
    /\ UNCHANGED <<pipelineVars, terraformVars>>

\* lines 81 and 88-94: the 30 seconds have passed and no build has started
StartTimeout ==
    /\ jk_pc = "queue"
    /\ JenkinsReturns(TimeoutResult("queued but not started yet"))
    /\ UNCHANGED <<client, wait, client_calls, polls, build_number>>
    /\ UNCHANGED <<pipelineVars, terraformVars>>

\* _wait_for_build, lines 126-145: one pass of the loop, while the 300
\* seconds have not passed; an exception is logged and the loop goes on
PollBuild(outcome) ==
    /\ jk_pc = "build"
    /\ polls < MaxPolls
    /\ client_calls' = Append(client_calls, "get_build_info")
    /\ CASE outcome \in {"building", "raises"} ->
              /\ polls' = polls + 1
              /\ jk_pc' = jk_pc /\ jk_result' = jk_result
         [] OTHER ->
              /\ polls' = polls
              /\ JenkinsReturns([success |-> outcome = "SUCCESS",
                                 message |-> "completed with result",
                                 result |-> outcome])
    /\ UNCHANGED <<client, wait, build_number>>
    /\ UNCHANGED <<pipelineVars, terraformVars>>

\* _wait_for_build, lines 126 and 147-154: the 300 seconds have passed
WaitTimeout ==
    /\ jk_pc = "build"
    /\ JenkinsReturns(TimeoutResult("still running (timeout reached)"))
    /\ UNCHANGED <<client, wait, client_calls, polls, build_number>>
    /\ UNCHANGED <<pipelineVars, terraformVars>>

NextJenkins ==
    \/ \E has_client \in BOOLEAN, w \in BOOLEAN : CallTriggerJob(has_client, w)
    \/ \E outcome \in {"found", "JenkinsException", "ConnectionError"} :
            GetJobInfo(outcome)
    \/ \E raises \in BOOLEAN : BuildJob(raises)
    \/ \E outcome \in {"started", "queued", "raises"} : PollQueue(outcome)
    \/ StartTimeout
    \/ \E outcome \in {"building", "raises", "SUCCESS", "FAILURE", "ABORTED"} :
            PollBuild(outcome)
    \/ WaitTimeout

SpecJenkins == Init /\ [][NextJenkins]_vars

----------------------------------------------------------------------------
(* Vocabulary of the properties *)

\* the string `sub` stands in `s` right after position k, letter case aside
MatchesAt(sub, s, k) ==
    /\ k + Len(sub) <= Len(s)
    /\ \A j \in 1..Len(sub) : LowerChar(s[k + j]) = LowerChar(sub[j])

\* the message mentions one of the configured substrings
Mentions(list, msg) ==
    \E i \in DOMAIN list : \E k \in 0..Len(msg) : MatchesAt(list[i], msg, k)

Called(name) == name \in calls

\* the resolver has answered for the current message
Resolved == Called("nlp.process") /\ pc # "raised"

\* a recorded result that carries success = false
RecordedFailure(result) == "success" \in DOMAIN result /\ result.success = FALSE

\* the outermost invocation has returned a report of step results
Reported == report # NoReport /\ report.header # "has no steps to execute"

\* the declared step at a path of the workflow
RECURSIVE StepOf(_, _)
StepOf(steps, path) ==
    IF Len(path) = 1 THEN steps[path[1].step]
    ELSE LET parent == StepOf(steps, SubSeq(path, 1, Len(path) - 1))
         IN GetOr(parent, path[Len(path)].branch, <<>>)[path[Len(path)].step]

\* the top-level index of a dispatched step
TopIndex(path) == path[1].step

----------------------------------------------------------------------------
(* Properties *)

\* C1: once a top-level step is recorded with success = false, no later
\* top-level step is dispatched, and the report holds the results of the
\* steps up to and including the failing one and is marked failed.
C1_HaltAfterFirstFailure ==
    /\ stack # <<>> =>
          \A k \in DOMAIN stack[1].results :
              ~RecordedFailure(stack[1].results[k].result)
    /\ Reported =>
          /\ \A k \in DOMAIN report.lines : report.lines[k].step = k
          /\ \A k \in DOMAIN report.lines :
                report.lines[k].mark = "failed" =>
                    /\ k = Len(report.lines)
                    /\ report.header = "failed"
                    /\ \A d \in DOMAIN dispatched : TopIndex(dispatched[d]) <= k

C1_Witness ==
    /\ Reported
    /\ Len(workflow.steps) = 3
    /\ Len(report.lines) = 2
    /\ report.lines[1].mark = "ok"
    /\ report.lines[2].mark = "failed"
    /\ report.header = "failed"

\* C2: execute is invoked, and a step dispatched, only for a message whose
\* user is authorized, that mentions no restricted command unless the user
\* is an admin, whose confidence is not below the threshold, for which a
\* command was built, and that mentions no approval-required command.
C2_ExecuteOnlyWhenCleared ==
    (Called("execute") \/ pc \in {"execute", "engine"} \/ dispatched # <<>>
        \/ stack # <<>>) =>
        /\ user_id \in authorized_users
        /\ Mentions(restricted_commands, message) => user_id \in admin_users
        /\ Resolved
        /\ confidence >= confidence_threshold
        /\ Called("parse")
        /\ ~IsNone(command)
        /\ ~Mentions(approval_required, message)

C2_Witness ==
    /\ Called("execute")
    /\ dispatched # <<>>
    /\ user_id = "root"
    /\ Mentions(restricted_commands, message)

\* C3 (as claimed): a step of a type without handler is recorded as a failed
\* result and halts the workflow, and the report is marked failed.
C3_UnknownTypeFailsAndHalts ==
    Reported =>
        \A k \in DOMAIN report.lines :
            report.lines[k].type = "shell" =>
                /\ report.lines[k].mark = "failed"
                /\ k = Len(report.lines)
                /\ report.header = "failed"

\* C4 (as claimed): the header of the report says success exactly when every
\* recorded step result carries success = true.
C4_HeaderIsConjunction ==
    Reported =>
        (report.header = "completed successfully"
            <=> \A k \in DOMAIN report.lines : report.lines[k].mark = "ok")

\* C5 (as claimed): the report holds exactly one result for every step that
\* was dispatched, the steps of a selected branch included, in dispatch order.
C5_OneResultPerDispatchedStep ==
    Reported =>
        /\ Len(report.lines) = Len(dispatched)
        /\ \A k \in DOMAIN report.lines :
              k \in DOMAIN dispatched =>
                  report.lines[k].type = StepType(StepOf(workflow.steps, dispatched[k]))

\* C6: when the intent has a template and every required entity is given,
\* parse returns a command whose parameters are the defaults overridden by
\* the entities: every entity with its value, every default that was not
\* given, and nothing else.
C6_ParametersAreDefaultsOverridden ==
    (Called("parse") /\ intent \in DOMAIN command_templates
        /\ \A i \in DOMAIN command_templates[intent].required_entities :
              command_templates[intent].required_entities[i] \in DOMAIN entities) =>
        LET defaults == command_templates[intent].defaults
        IN /\ ~IsNone(command)
           /\ command.action = command_templates[intent].action
           /\ DOMAIN command.parameters = (DOMAIN entities) \cup (DOMAIN defaults)
           /\ \A k \in DOMAIN entities : command.parameters[k] = entities[k]
           /\ \A k \in (DOMAIN defaults) \ (DOMAIN entities) :
                 command.parameters[k] = defaults[k]

C6_Witness ==
    /\ Called("parse")
    /\ intent = "deploy"
    /\ entities = [service |-> Str(<<"api">>), environment |-> Str(<<"production">>)]
    /\ command = [action |-> "deploy",
                  parameters |-> [environment |-> Str(<<"production">>),
                                  version |-> Str(<<"latest">>),
                                  service |-> Str(<<"api">>)],
                  workflow |-> "deploy_workflow.yaml"]

\* the intent has a template and one of its required entities is missing
RequiredEntityAbsent ==
    /\ Called("parse")
    /\ intent \in DOMAIN command_templates
    /\ \E i \in DOMAIN command_templates[intent].required_entities :
          command_templates[intent].required_entities[i] \notin DOMAIN entities

C8_LowConfidenceNeverParsed ==
    /\ (Resolved /\ confidence < confidence_threshold) =>
          /\ reply = "clarify"
          /\ pc = "done"
          /\ ~Called("parse")
    /\ (Resolved /\ confidence = confidence_threshold) =>
          /\ reply # "clarify"
          /\ pc = "parse" \/ Called("parse")

C8_Witness ==
    /\ Resolved
    /\ confidence = confidence_threshold - 1
    /\ reply = "clarify"

\* C9: a user outside the authorized set is denied as not authorized,
\* whatever the message says.
C9_UnauthorizedAlwaysDenied ==
    /\ \A u \in Users \ authorized_users : \A m \in Messages :
          ~_is_user_authorized(u, m)
    /\ (Called("_is_user_authorized") /\ user_id \notin authorized_users) =>
          /\ reply = "not authorized"
          /\ pc = "done"
          /\ calls = {"_is_user_authorized"}

C9_Witness ==
    /\ user_id = "carol"
    /\ Mentions(restricted_commands, message)
    /\ Mentions(approval_required, message)
    /\ reply = "not authorized"

\* C10: an authorized user who is no admin is denied every message that
\* mentions a restricted command, in any letter case and anywhere in the
\* message; an authorized admin is not denied.
C10_RestrictedNeedsAdmin ==
    /\ (Called("_is_user_authorized") /\ user_id \in authorized_users \ admin_users
           /\ Mentions(restricted_commands, message)) =>
          /\ reply = "not authorized"
          /\ pc = "done"
    /\ (Called("_is_user_authorized")
           /\ user_id \in authorized_users \cap admin_users) =>
          /\ reply # "not authorized"
          /\ pc # "done" \/ Called("nlp.process")

C10_Witness ==
    /\ user_id = "alice"
    /\ message = <<"p", "r", "M">>
    /\ reply = "not authorized"
    /\ pc = "done"

\* C11: for a message whose user passed _is_user_authorized (an admin
\* included) and for which parse built a command, a message that mentions an
\* approval-required command, in any letter case and anywhere in the message,
\* is answered with the approval-required reply and execute is never invoked.
C11_ApprovalGateBlocks ==
    (Called("parse") /\ ~IsNone(command)
        /\ Mentions(approval_required, message)) =>
        /\ user_id \in authorized_users
        /\ pc = "approval" \/ (pc = "done" /\ reply = "approval required")
        /\ ~Called("execute")
        /\ dispatched = <<>>
        /\ stack = <<>>
        /\ report = NoReport

C11_Witness ==
    /\ user_id = "root"
    /\ message = <<"r", "M", "p">>
    /\ ~IsNone(command)
    /\ Called("_requires_approval")
    /\ reply = "approval required"
    /\ pc = "done"

\* the command parameters have the key `name`
Given(name) == name \in DOMAIN parameters

\* C12: a declared value ${a}, at the top of the step parameters, inside a
\* nested mapping or inside a list, is replaced by exactly the value the
\* command parameters hold for a; when that value is the text ${b} the
\* result is the text ${b}, also when the command parameters hold b: the
\* inserted value is not scanned again.
C12_SubstitutedOnce ==
    \A key \in DOMAIN declared_params :
        LET value == declared_params[key]
            replaced == handler_params[key]
        IN Given("a") =>
              /\ value = Placeholder("a") => replaced = parameters["a"]
              /\ (IsMapping(value) /\ value.dict["inner"] = Placeholder("a")) =>
                    replaced.dict["inner"] = parameters["a"]
              /\ IsList(value) =>
                    /\ value.list[1] = Placeholder("a") =>
                          replaced.list[1] = parameters["a"]
                    /\ value.list[2] = Placeholder("a") =>
                          replaced.list[2] = parameters["a"]

C12_Witness ==
    /\ pc = "done"
    /\ parameters = [a |-> Placeholder("b"), b |-> Str(<<"api">>)]
    /\ declared_params = [job |-> Placeholder("a"), wait |-> Placeholder("a")]
    /\ handler_params = [job |-> Placeholder("b"), wait |-> Placeholder("b")]

\* the text is ${name} as a whole for a key `name` of the command parameters
WholePlaceholderOf(text) ==
    {name \in DOMAIN parameters : text = <<"$", "{", name, "}">>}

\* `after` is `before` with the substitution rule applied at every leaf and
\* the structure kept
RECURSIVE SubstitutedFrom(_, _)
SubstitutedFrom(before, after) ==
    IF IsStr(before)
    THEN IF WholePlaceholderOf(before.str) # {}
         THEN \A name \in WholePlaceholderOf(before.str) : after = parameters[name]
         ELSE after = before
    ELSE IF IsMapping(before)
    THEN /\ IsMapping(after)
         /\ DOMAIN after.dict = DOMAIN before.dict
         /\ \A k \in DOMAIN before.dict :
               SubstitutedFrom(before.dict[k], after.dict[k])
    ELSE IF IsList(before)
    THEN /\ IsList(after)
         /\ Len(after.list) = Len(before.list)
         /\ \A k \in DOMAIN before.list :
               SubstitutedFrom(before.list[k], after.list[k])
    ELSE after = before

\* C13: a text is replaced only when it is ${name} as a whole and name is a
\* key of the command parameters; ${name} with an absent name and a text that
\* merely contains a placeholder stay as they are; the result has the keys,
\* the nesting and the list lengths and order of the declared parameters,
\* with the same rule applied inside nested mappings and lists.
C13_StructureKept ==
    /\ DOMAIN handler_params = DOMAIN declared_params
    /\ \A key \in DOMAIN declared_params :
          SubstitutedFrom(declared_params[key], handler_params[key])

C13_Witness ==
    /\ pc = "done"
    /\ parameters = [a |-> Str(<<"api">>)]
    /\ declared_params =
          [job |-> [list |-> <<[dict |-> [inner |-> Placeholder("c")]],
                               Placeholder("a")>>]]
    /\ handler_params =
          [job |-> [list |-> <<[dict |-> [inner |-> Placeholder("c")]],
                               Str(<<"api">>)>>]]

\* the same on flat parameters: an absent name and a placeholder inside a
\* longer text are not touched
C13_WitnessFlat ==
    /\ pc = "done"
    /\ parameters = [a |-> Str(<<"api">>)]
    /\ declared_params = [job |-> Placeholder("c"),
                          wait |-> Str(<<"x", "$", "{", "a", "}">>)]
    /\ handler_params = declared_params

\* the declared top-level steps of the running invocation
DeclaredSteps == IF "steps" \in DOMAIN workflow THEN workflow.steps ELSE <<>>

\* the results recorded so far for the top-level steps, as report lines
RecordedLines ==
    IF stack # <<>>
    THEN [k \in DOMAIN stack[1].results |-> ReportLine(stack[1].results[k])]
    ELSE IF Reported THEN report.lines ELSE <<>>

\* the dispatches, in order, of the steps of branch b of top-level step k
BranchDispatches(k, b) ==
    SelectSeq(dispatched,
              LAMBDA path : /\ Len(path) = 2
                            /\ path[1].step = k
                            /\ path[2].branch = b)

\* every step of the list was dispatched once, in declaration order
AllDispatched(k, b, steps) ==
    /\ Len(BranchDispatches(k, b)) = Len(steps)
    /\ \A j \in DOMAIN steps : BranchDispatches(k, b)[j][2].step = j

NoneDispatched(k, b) ==
    /\ BranchDispatches(k, b) = <<>>
    /\ \A path \in inflight : ~(Len(path) = 2 /\ path[1].step = k
                                  /\ path[2].branch = b)

\* the place of a one-character text in the order of Python on str: the
\* digits in their order, then the letters
Place(value) ==
    CASE value = Str(<<"1">>) -> 1
      [] value = Str(<<"3">>) -> 2
      [] OTHER -> 3

\* the value of a parameter-type predicate on the one-character texts of
\* the workflows: "true", "false", or "none" when the parameter is absent or
\* the values cannot be compared
PredicateValue(condition) ==
    IF condition.parameter \notin DOMAIN parameters THEN "none"
    ELSE LET actual == parameters[condition.parameter]
             expected == condition.value
             op == condition.operator
             truth ==
                 CASE op = "eq" -> actual = expected
                   [] op = "ne" -> actual # expected
                   [] op = "gt" -> Place(actual) > Place(expected)
                   [] op = "lt" -> Place(actual) < Place(expected)
                   [] op = "ge" -> Place(actual) >= Place(expected)
                   [] op = "le" -> Place(actual) <= Place(expected)
                   [] op = "contains" -> actual = expected
                   [] op = "not_contains" -> actual # expected
                   [] OTHER -> FALSE
         IN IF IsInt(expected) /\ op \notin {"eq", "ne", "matches"} THEN "none"
            ELSE IF truth THEN "true" ELSE "false"

IsParameterCondition(step) ==
    /\ StepType(step) = "condition"
    /\ step.condition.type = "parameter"

\* C14: for a parameter-type condition step whose predicate is true, no step
\* of the else branch is ever dispatched and, once the condition's result
\* is recorded, every step of the then branch has been dispatched once, in
\* order; with then and else exchanged when the predicate is false.
C14_ExactlyOneBranch ==
    \A k \in DOMAIN DeclaredSteps :
        LET step == DeclaredSteps[k]
        IN IsParameterCondition(step) =>
              /\ PredicateValue(step.condition) = "true" =>
                    /\ NoneDispatched(k, "else")
                    /\ k \in DOMAIN RecordedLines =>
                          AllDispatched(k, "then", step["then"])
              /\ PredicateValue(step.condition) = "false" =>
                    /\ NoneDispatched(k, "then")
                    /\ k \in DOMAIN RecordedLines =>
                          AllDispatched(k, "else", step["else"])

C14_Witness ==
    /\ pc = "done"
    /\ Len(DeclaredSteps) = 3
    /\ IsParameterCondition(DeclaredSteps[2])
    /\ DeclaredSteps[2].condition =
          [type |-> "parameter", parameter |-> "count",
           value |-> Str(<<"3">>), operator |-> "eq"]
    /\ PredicateValue(DeclaredSteps[2].condition) = "true"
    /\ DeclaredSteps[2]["then"] = <<NotifyStep, JenkinsStep>>
    /\ DeclaredSteps[2]["else"] = <<TerraformStep>>
    /\ Len(BranchDispatches(2, "then")) = 2
    /\ Len(report.lines) = 3

\* the same with a false predicate: the else branch runs
C14_WitnessElse ==
    /\ pc = "done"
    /\ Len(DeclaredSteps) = 3
    /\ IsParameterCondition(DeclaredSteps[2])
    /\ DeclaredSteps[2].condition.operator = "lt"
    /\ PredicateValue(DeclaredSteps[2].condition) = "false"
    /\ DeclaredSteps[2]["then"] = <<NotifyStep, JenkinsStep>>
    /\ Len(BranchDispatches(2, "else")) = 2

\* the value of the predicate of the condition step at top-level index k:
\* for a result-type condition the success flag recorded for the step it
\* names, when there is such a step and its result carries a flag
ConditionValue(k) ==
    LET condition == DeclaredSteps[k].condition
    IN IF condition.type = "parameter" THEN PredicateValue(condition)
       ELSE IF condition.type = "result"
       THEN (IF condition.step \in 1..(k - 1)
                  /\ condition.step \in DOMAIN RecordedLines
                  /\ RecordedLines[condition.step].mark # "plain"
             THEN (IF RecordedLines[condition.step].mark = "ok" THEN "true"
                   ELSE "false")
             ELSE "none")
       ELSE "none"

\* the top-level sequence went on after step k
WentOn(k) ==
    k < Len(DeclaredSteps) =>
        \/ stack # <<>>
        \/ Reported /\ Len(report.lines) > k

LoggedFailure(path) == \E d \in DOMAIN error_log : error_log[d] = path

\* the step at the path was handed to its handler
Dispatched(path) == \E d \in DOMAIN dispatched : dispatched[d] = path

TopPath(k) == <<[branch |-> "top", step |-> k]>>

\* C16: when a step inside the selected branch of the condition step at
\* top-level index k has failed, the result recorded for the condition step
\* still carries success = true, the invocation does not end at step k, and
\* when it has ended the top-level step k + 1 has been dispatched.
C16_BranchFailureDoesNotHalt ==
    \A d \in DOMAIN error_log :
        Len(error_log[d]) = 2 =>
            LET k == error_log[d][1].step
            IN /\ k \in DOMAIN RecordedLines => RecordedLines[k].mark = "ok"
               /\ WentOn(k)
               /\ (pc = "done" /\ k < Len(DeclaredSteps)) => Dispatched(TopPath(k + 1))

C16_Witness ==
    /\ pc = "done"
    /\ Len(DeclaredSteps) = 3
    /\ DeclaredSteps[2]["then"] = <<JenkinsStep>>
    /\ error_log = <<Append(TopPath(2), [branch |-> "then", step |-> 1])>>
    /\ Dispatched(TopPath(3))
    /\ report.lines[2].mark = "ok"
    /\ report.header = "completed successfully"

\* C17 (as claimed): the steps of the selected branch are dispatched in
\* declaration order and the branch follows the halt rule of the engine:
\* after a step of the branch has failed, no later step of that branch is
\* dispatched.
C17_BranchHaltsOnFailure ==
    /\ \A d, e \in DOMAIN dispatched :
          (d < e /\ Len(dispatched[d]) = 2 /\ Len(dispatched[e]) = 2
              /\ dispatched[d][1] = dispatched[e][1]) =>
              dispatched[d][2].step < dispatched[e][2].step
    /\ \A d \in DOMAIN error_log :
          Len(error_log[d]) = 2 =>
              \A e \in DOMAIN dispatched :
                  (Len(dispatched[e]) = 2
                      /\ dispatched[e][1] = error_log[d][1]
                      /\ dispatched[e][2].branch = error_log[d][2].branch) =>
                      dispatched[e][2].step <= error_log[d][2].step

\* the dispatches of the top-level steps, in order
TopDispatches == SelectSeq(dispatched, LAMBDA path : Len(path) = 1)

\* C18: the top-level steps of an invocation are dispatched in declaration
\* order, the n-th dispatch being that of step n; step n is dispatched only
\* when the results of the steps 1 to n - 1 are recorded; at most one adapter
\* call is in flight; the recorded results carry the indices 1, 2, ..., k.
C18_InOrderOneAtATime ==
    /\ \A n \in DOMAIN TopDispatches : TopDispatches[n][1].step = n
    /\ Len(TopDispatches) <= Len(DeclaredSteps)
    /\ Len(RecordedLines) <= Len(TopDispatches)
    /\ Len(TopDispatches) <= Len(RecordedLines) + 1
    /\ Cardinality(inflight) <= 1
    /\ \A path \in inflight : Dispatched(path)
    /\ \A k \in DOMAIN RecordedLines : RecordedLines[k].step = k
    /\ \A f \in DOMAIN stack :
          stack[f].kind = "wf" =>
              \A k \in DOMAIN stack[f].results : stack[f].results[k].step = k

C18_Witness ==
    /\ pc = "engine"
    /\ Len(DeclaredSteps) = 3
    /\ inflight = {TopPath(3)}
    /\ Len(TopDispatches) = 3
    /\ Len(RecordedLines) = 2
    /\ RecordedLines[2].step = 2

\* process_message has returned the text
Returned(text) == pc = "done" /\ reply = text

\* execute was called and loaded no workflow
NothingLoaded ==
    Called("execute") /\ command.action # "help" /\ workflow = NoneValue

\* C19: each outcome of the error taxonomy ends process_message with a
\* text: a user outside the authorized set, a restricted command of a user
\* who is no admin, a confidence below the threshold, an intent without
\* template, an absent required entity, an approval-required command, a
\* workflow that does not load, and a workflow that runs into a step of
\* unknown type, a failing adapter or an unknown operator; process_message
\* is left by an exception only when NLPProcessor.process raised, before
\* any of these outcomes.
C19_TaxonomyReturnsText ==
    /\ (Called("_is_user_authorized") /\ user_id \notin authorized_users) =>
          Returned("not authorized")
    /\ (Called("_is_user_authorized") /\ user_id \notin admin_users
           /\ Mentions(restricted_commands, message)) =>
          Returned("not authorized")
    /\ (Resolved /\ confidence < confidence_threshold) => Returned("clarify")
    /\ (Called("parse") /\ intent \notin DOMAIN command_templates) =>
          Returned("not understood")
    /\ RequiredEntityAbsent => Returned("not understood")
    /\ (Called("_requires_approval") /\ Mentions(approval_required, message)) =>
          Returned("approval required")
    /\ NothingLoaded =>
          /\ pc = "done"
          /\ reply \in {"workflow template not found", "error executing command",
                        "error executing workflow"}
    /\ (Called("execute") /\ workflow # NoneValue) =>
          /\ pc \in {"engine", "done"}
          /\ pc = "engine" => stack # <<>>
          /\ pc = "done" => reply = "report" /\ report # NoReport
    /\ pc = "done" => reply # None
    /\ pc = "raised" =>
          /\ calls = {"_is_user_authorized", "nlp.process"}
          /\ reply = None

C19_Witness ==
    /\ Returned("report")
    /\ Called("execute")
    /\ "name" \in DOMAIN workflow
    /\ workflow["name"] = "gate"
    /\ report.lines[1].message = "Condition evaluated to false"
    /\ Dispatched(Append(TopPath(1), [branch |-> "else", step |-> 1]))
    /\ Len(report.lines) = 2

\* the same for a step of unknown type followed by a failing step
C19_WitnessUnknownKind ==
    /\ Returned("report")
    /\ Called("execute")
    /\ "name" \in DOMAIN workflow
    /\ workflow["name"] = "probe"
    /\ report.lines[1].mark = "plain"
    /\ report.lines[2].mark = "failed"

\* the same for a workflow that does not load because templates_path is a str
C19_WitnessNotLoaded ==
    /\ NothingLoaded
    /\ templates_path = "str"
    /\ Returned("error executing command")

\* the comparison of the parameter-type condition raises: the parameter is
\* there and is a text, the value to compare with is an int and the operator
\* orders or searches
ComparisonRaises(condition) ==
    /\ condition.parameter \in DOMAIN parameters
    /\ IsInt(condition.value)
    /\ condition.operator \notin {"eq", "ne", "matches"}

\* the invocation ended at top-level step k with the fault recorded
FaultRecordedAt(k, msg) ==
    /\ stack = <<>>
    /\ pc = "done"
    /\ Reported
    /\ Len(report.lines) = k
    /\ \A n \in 1..k : report.lines[n].step = n
    /\ report.lines[k].mark = "failed"
    /\ report.lines[k].message = msg
    /\ report.header = "failed"
    /\ LoggedFailure(TopPath(k))
    /\ ~Dispatched(TopPath(k + 1))

\* C20: no exception leaves _execute_workflow; when the evaluation of a
\* top-level condition raises, or the adapter call of a top-level step
\* raises, the step is recorded as failed with the message of the exception,
\* no later step is dispatched and the report of the steps up to this one
\* is returned.
C20_FaultsAreRecorded ==
    /\ pc \in {"idle", "engine", "done"}
    /\ \A k \in DOMAIN DeclaredSteps :
          (IsParameterCondition(DeclaredSteps[k])
              /\ ComparisonRaises(DeclaredSteps[k].condition)
              /\ Dispatched(TopPath(k))) =>
              FaultRecordedAt(k, "TypeError")
    /\ \A k \in DOMAIN RecordedLines :
          RecordedLines[k].message \in {"exception", "TypeError"} =>
              FaultRecordedAt(k, RecordedLines[k].message)

C20_Witness ==
    /\ Len(DeclaredSteps) = 3
    /\ IsParameterCondition(DeclaredSteps[2])
    /\ ComparisonRaises(DeclaredSteps[2].condition)
    /\ DeclaredSteps[2].condition.operator = "gt"
    /\ FaultRecordedAt(2, "TypeError")
    /\ report.lines[1].mark = "ok"

\* the same for an adapter call that raises
C20_WitnessAdapter ==
    /\ Len(DeclaredSteps) = 3
    /\ DeclaredSteps[1] = JenkinsStep
    /\ FaultRecordedAt(1, "exception")

\* C21 (as claimed): when execute loads no workflow for the name of the
\* command, for want of a file that exists and parses, no exception leaves
\* execute: it returns the not-found text, and no step is dispatched.
C21_NotFoundNeverRaises ==
    (NothingLoaded /\ reply # "error executing workflow") =>
        /\ Returned("workflow template not found")
        /\ dispatched = <<>>

\* C22: for an intent without template parse returns no command, whatever
\* the entities; process_message answers with the rejection and neither the
\* approval check nor execute is reached, no workflow is loaded and no step
\* is dispatched.
C22_UnknownIntentRejected ==
    /\ \A i \in Intents \ DOMAIN command_templates : \A e \in EntityMaps :
          parse(i, e) = NoCommand
    /\ (Called("parse") /\ intent \notin DOMAIN command_templates) =>
          /\ IsNone(command)
          /\ Returned("not understood")
          /\ ~Called("_requires_approval")
          /\ ~Called("execute")
          /\ workflow = NoneValue
          /\ dispatched = <<>>
          /\ stack = <<>>

C22_Witness ==
    /\ Called("parse")
    /\ intent = "unknown"
    /\ entities = EntityValues
    /\ confidence = 92
    /\ Returned("not understood")

\* a command was built for the current message
Built == Called("parse") /\ ~IsNone(command)

IsResultCondition(step) ==
    /\ StepType(step) = "condition"
    /\ step.condition.type = "result"

\* C24 (as claimed): a result-type condition at top-level index k that names
\* an earlier step n, 1 <= n < k, runs its then branch if the success flag
\* recorded for step n is true and its else branch in every other case.
C24_ResultConditionSelects ==
    \A k \in DOMAIN RecordedLines :
        LET step == DeclaredSteps[k]
        IN (IsResultCondition(step) /\ step.condition.step \in 1..(k - 1)) =>
              IF RecordedLines[step.condition.step].mark = "ok"
              THEN /\ AllDispatched(k, "then", step["then"])
                   /\ NoneDispatched(k, "else")
              ELSE /\ AllDispatched(k, "else", step["else"])
                   /\ NoneDispatched(k, "then")

\* the value is a number or the text of one
IsNumber(value) == IsInt(value) \/ value \in {Str(<<"1">>), Str(<<"3">>)}

\* the parameter-type condition orders two values of which one is no number
OrdersNonNumeric(condition) ==
    /\ condition.operator \in {"gt", "lt", "ge", "le"}
    /\ condition.parameter \in DOMAIN parameters
    /\ \/ ~IsNumber(parameters[condition.parameter])
       \/ ~IsNumber(condition.value)

\* C25 (as claimed): when a parameter-type condition step orders values of
\* which one is no number, no exception leaves the invocation, the condition
\* step is recorded as failed with a diagnostic message, and no branch of it
\* is dispatched.
C25_NonNumericIsRecordedFalse ==
    /\ pc # "raised"
    /\ \A k \in DOMAIN RecordedLines :
          LET step == DeclaredSteps[k]
          IN (IsParameterCondition(step) /\ OrdersNonNumeric(step.condition)) =>
                /\ RecordedLines[k].mark = "failed"
                /\ NoneDispatched(k, "then")
                /\ NoneDispatched(k, "else")

\* the call of process_message of thread t
FrameOf(t) == IF running = t THEN Frame ELSE suspended

\* the results recorded so far for the top-level steps of the call, as
\* report lines
LinesOf(f) ==
    IF f.stack # <<>>
    THEN [k \in DOMAIN f.stack[1].results |-> ReportLine(f.stack[1].results[k])]
    ELSE IF f.report # NoReport /\ f.report.header # "has no steps to execute"
         THEN f.report.lines
         ELSE <<>>

\* the top-level steps the call has dispatched
TopDispatchesOf(f) == SelectSeq(f.dispatched, LAMBDA path : Len(path) = 1)

\* the line is one that step k of the workflow of the call yields when the
\* call runs alone: the result of the handler on the parameters of the call,
\* or one of the results of the adapter
LineOfAlone(f, k, line) ==
    LET step == f.workflow.steps[k]
        outcome == StepOutcome(step, f.parameters, <<>>)
    IN /\ line.step = k
       /\ line.type = StepType(step)
       /\ CASE outcome.kind = "result" ->
                 line = ReportLine([step |-> k, type |-> StepType(step),
                                    result |-> outcome.result])
            [] outcome.kind = "raise" ->
                 line.mark = "failed" /\ line.message = outcome.message
            [] outcome.kind = "adapter" ->
                 \/ line.mark = "ok" /\ line.message = "adapter succeeded"
                 \/ line.mark = "failed"
                    /\ line.message \in {"adapter failed", "exception"}
            [] OTHER ->
                 line.mark = "ok" /\ line.message = outcome.message

C26_WitnessInterleaved ==
    /\ \A t \in Threads : /\ FrameOf(t).stack # <<>>
                          /\ Len(LinesOf(FrameOf(t))) = 1
    /\ FrameOf(1).workflow # FrameOf(2).workflow

C27_NoDispatchAfterCancel == [][cancel_signal => dispatched' = dispatched]_vars

Declared(template) ==
    {template.required_entities[i] : i \in DOMAIN template.required_entities}
        \cup {template.optional_entities[i] : i \in DOMAIN template.optional_entities}

C29_WitnessHelp ==
    /\ Built
    /\ intent = "help"
    /\ entities = EmptyDict
    /\ command.parameters = EmptyDict

\* every result recorded before top-level step k carries a success flag
FlagsBefore(k) ==
    \A n \in 1..(k - 1) :
        n \in DOMAIN RecordedLines => RecordedLines[n].mark # "plain"

\* C30: at top level, when every result recorded before it carries a success
\* flag, a result-type condition step never selects its else branch: no step
\* of the else branch is dispatched and the step is never recorded as
\* evaluated to false; when it names an earlier step, that step is recorded
\* with success = true and the then branch is the one that runs.
C30_ResultConditionNeverElse ==
    \A k \in DOMAIN DeclaredSteps :
        LET step == DeclaredSteps[k]
        IN (IsResultCondition(step) /\ FlagsBefore(k)) =>
              /\ NoneDispatched(k, "else")
              /\ k \in DOMAIN RecordedLines =>
                    /\ RecordedLines[k].message # "Condition evaluated to false"
                    /\ step.condition.step \in 1..(k - 1) =>
                          /\ RecordedLines[step.condition.step].mark = "ok"
                          /\ RecordedLines[k].mark = "ok"
                          /\ RecordedLines[k].message = "Condition evaluated to true"
                          /\ AllDispatched(k, "then", step["then"])

C30_Witness ==
    /\ Len(DeclaredSteps) = 3
    /\ IsResultCondition(DeclaredSteps[2])
    /\ DeclaredSteps[2].condition.step = 1
    /\ DeclaredSteps[2]["else"] # <<>>
    /\ Len(DeclaredSteps[2]["then"]) = 2
    /\ pc = "done"
    /\ Len(RecordedLines) = 3
    /\ RecordedLines[1].mark = "ok"
    /\ RecordedLines[2].message = "Condition evaluated to true"
    /\ Len(BranchDispatches(2, "then")) = 2

\* the step the condition names has failed: the sequence has halted there
C30_WitnessHalted ==
    /\ Len(DeclaredSteps) = 3
    /\ IsResultCondition(DeclaredSteps[2])
    /\ DeclaredSteps[2].condition.step = 1
    /\ pc = "done"
    /\ Len(RecordedLines) = 1
    /\ RecordedLines[1].mark = "failed"
    /\ ~Dispatched(TopPath(2))

LastDispatchedStep == StepOf(workflow.steps, dispatched[Len(dispatched)])

KnownOperators == {"eq", "ne", "gt", "lt", "ge", "le", "contains", "not_contains"}

\* the step is a parameter-type condition with an operator that
\* _evaluate_condition does not know, on a parameter the invocation has
HasUnknownOperator(step) ==
    /\ IsParameterCondition(step)
    /\ step.condition.operator \notin KnownOperators
    /\ step.condition.parameter \in DOMAIN parameters

\* C33: a parameter-type condition step whose operator is none of eq, ne, gt,
\* lt, ge, le, contains, not_contains, on a parameter of the invocation,
\* evaluates to false whatever the two values are: no step of the then
\* branch is ever dispatched, no failure is logged for the step, and once its
\* result is recorded every step of the else branch has been dispatched and
\* the result carries success = true with the message of the false case.
C33_UnknownOperatorIsFalse ==
    \A k \in DOMAIN DeclaredSteps :
        LET step == DeclaredSteps[k]
        IN HasUnknownOperator(step) =>
              /\ NoneDispatched(k, "then")
              /\ ~LoggedFailure(TopPath(k))
              /\ k \in DOMAIN RecordedLines =>
                    /\ AllDispatched(k, "else", step["else"])
                    /\ RecordedLines[k].mark = "ok"
                    /\ RecordedLines[k].message = "Condition evaluated to false"
                    /\ WentOn(k)

C33_Witness ==
    /\ Len(DeclaredSteps) = 3
    /\ HasUnknownOperator(DeclaredSteps[2])
    /\ DeclaredSteps[2]["then"] # <<>>
    /\ DeclaredSteps[2]["else"] = <<TerraformStep>>
    /\ pc = "done"
    /\ Len(RecordedLines) = 3
    /\ RecordedLines[2].mark = "ok"
    /\ Dispatched(Append(TopPath(2), [branch |-> "else", step |-> 1]))
    /\ report.header = "completed successfully"

\* the dispatched path lies below the path p
Below(path, p) ==
    /\ Len(path) > Len(p)
    /\ SubSeq(path, 1, Len(p)) = p

\* C34: a result-type condition step that stands inside a branch of a
\* condition step, at any depth, runs in an invocation of its own with no
\* result recorded: whatever step it names, its handler returns the failure
\* that the step result was not found, the failure is logged, and no step of
\* its then branch or of its else branch is ever dispatched, although the
\* step it names has a result in the top-level sequence.
C34_NestedResultConditionFails ==
    /\ (Ready /\ Len(stack) > 1 /\ IsResultCondition(CurrentStep)) =>
          /\ Top(stack).results = <<>>
          /\ stack[1].results # <<>>
          /\ CurrentOutcome = Immediate(Failed("Step result not found"))
    /\ \A d \in DOMAIN dispatched :
          LET p == dispatched[d]
              step == StepOf(workflow.steps, p)
          IN (Len(p) >= 2 /\ IsResultCondition(step)) =>
                /\ LoggedFailure(p)
                /\ \A e \in DOMAIN dispatched : ~Below(dispatched[e], p)
                /\ \A q \in inflight : ~Below(q, p)
                /\ RecordedLines # <<>>
                /\ RecordedLines[1].mark = "ok"

\* a result-type condition two branches deep has failed, the one beside it
\* was dispatched, and the workflow went on to its end
C34_Witness ==
    /\ pc = "done"
    /\ Len(RecordedLines) = 3
    /\ RecordedLines[2].mark = "ok"
    /\ \E d \in DOMAIN dispatched :
          /\ Len(dispatched[d]) = 3
          /\ StepOf(workflow.steps, dispatched[d]) = NestedResult(1)
          /\ LoggedFailure(dispatched[d])
    /\ \E d \in DOMAIN dispatched :
          /\ Len(dispatched[d]) = 2
          /\ StepOf(workflow.steps, dispatched[d]) = NestedResult(2)

\* run_terraform was called with a valid action
ValidCall == tf_action \in valid_actions

\* the positions in tf_commands of the command that line 127 ran
ActionRuns == {n \in DOMAIN tf_commands : tf_commands[n].line = 127}

\* C35: run_terraform called with an action outside valid_actions returns a
\* failure and runs no command.  For a valid action other than init the
\* first command is terraform init, and when it fails run_terraform returns
\* its result and runs nothing else.  For a workspace other than default,
\* workspace list and then a successful workspace select or workspace new
\* precede the action, and a failing one is the last command, whose result is
\* returned.  The action runs at most once, as the last command, and for the
\* default workspace no workspace command runs.
C35_TerraformCommandOrder ==
    /\ (tf_pc # "idle" /\ ~ValidCall) =>
          /\ tf_commands = <<>>
          /\ tf_pc = "returned"
          /\ tf_result = Failed("Invalid Terraform action")
    /\ (ValidCall /\ tf_action # "init" /\ tf_commands # <<>>) =>
          /\ tf_commands[1] = Ran("init", 88, tf_commands[1].success)
          /\ ~tf_commands[1].success =>
                /\ Len(tf_commands) = 1
                /\ tf_pc = "returned"
                /\ tf_result = CommandResult("init", FALSE)
    /\ \A n \in DOMAIN tf_commands :
          /\ tf_commands[n].line \in {100, 107} =>
                /\ tf_workspace # "default"
                /\ n > 1
                /\ tf_commands[n - 1].line = 96
                /\ ~tf_commands[n].success =>
                      /\ n = Len(tf_commands)
                      /\ tf_pc = "returned"
                      /\ tf_result = CommandResult(tf_commands[n].command, FALSE)
          /\ tf_commands[n].line = 96 => tf_workspace # "default"
          /\ tf_commands[n].line = 88 => n = 1 /\ tf_action # "init"
    /\ \A n \in ActionRuns :
          /\ n = Len(tf_commands)
          /\ tf_commands[n].command = tf_action
          /\ \A m \in 1..(n - 1) : tf_commands[m].line # 96 => tf_commands[m].success
          /\ tf_action # "init" => n > 1 /\ tf_commands[1].line = 88
          /\ tf_workspace # "default" =>
                /\ n > 2
                /\ tf_commands[n - 1].line \in {100, 107}
                /\ tf_commands[n - 2].line = 96

C35_Witness ==
    /\ tf_pc = "returned"
    /\ tf_action = "plan"
    /\ tf_workspace = "staging"
    /\ tf_commands = <<Ran("init", 88, TRUE), Ran("workspace list", 96, TRUE),
                       Ran("workspace new", 100, TRUE), Ran("plan", 127, TRUE)>>
    /\ tf_result = CommandResult("plan", TRUE)

\* init failed and the action never ran
C35_WitnessInitFailed ==
    /\ tf_pc = "returned"
    /\ tf_action = "apply"
    /\ tf_commands = <<Ran("init", 88, FALSE)>>
    /\ tf_result = CommandResult("init", FALSE)
    /\ ActionRuns = {}

\* C36 (as claimed): when run_terraform has returned, no temporary variable
\* file that it created is left.
C36_TempFileAlwaysDeleted == tf_pc = "returned" => temp_var_file # "exists"

----------------------------------------------------------------------------
(* trigger_job and its timeouts *)

IsClientCall(name) == \E i \in 1..Len(client_calls) : client_calls[i] = name

LastClientCall == client_calls[Len(client_calls)]

TimeoutMessages == {"queued but not started yet", "still running (timeout reached)"}

\* C37: a trigger_job call with wait=true that returned success=false had no
\* client, or its get_job_info raised JenkinsException, or build_job or a
\* get_queue_item raised, or the build finished with a result other than
\* SUCCESS; a call that gave up waiting for the start or for the end of the
\* build returned a result the workflow loop does not take for a failure; and
\* no call left at get_job_info has called build_job.
C37_WaitFailsOnlyForFourCauses ==
    /\ (jk_pc = "returned" /\ wait /\ ~jk_result.success) =>
           \/ ~client /\ client_calls = <<>>
           \/ /\ jk_result.message = "Job not found"
              /\ client_calls = <<"get_job_info">>
           \/ /\ jk_result.message = "Error triggering job"
              /\ LastClientCall \in {"build_job", "get_queue_item"}
           \/ /\ "result" \in DOMAIN jk_result
              /\ jk_result.result # "SUCCESS"
              /\ LastClientCall = "get_build_info"
    /\ (jk_pc = "returned" /\ wait /\ jk_result.message \in TimeoutMessages) =>
           /\ jk_result.success
           /\ ~IsFailure(jk_result)
           /\ IsClientCall("build_job")
    /\ (jk_pc = "raised" \/ (jk_pc = "returned" /\ jk_result.message = "Job not found")) =>
           ~IsClientCall("build_job")

\* a call with wait=true gave up after the build had started and was still
\* building at every poll
C37_Witness ==
    /\ jk_pc = "returned"
    /\ wait
    /\ jk_result.message = "still running (timeout reached)"
    /\ LastClientCall = "get_build_info"
    /\ polls = MaxPolls

\* a call with wait=true found no job
C37_WitnessNoJob ==
    /\ jk_pc = "returned"
    /\ wait
    /\ jk_result = Failed("Job not found")

----------------------------------------------------------------------------
(* Termination of execute *)

DispatchedOnce ==
    \A a, b \in DOMAIN dispatched : dispatched[a] = dispatched[b] => a = b

\* C38: when the engine goes on and every adapter call comes back, an
\* invocation of _execute_workflow that has started ends with a report, and
\* at no moment has a step of the workflow been dispatched twice.
C38_ExecuteTerminates ==
    /\ (pc = "engine") ~> (pc = "done" /\ stack = <<>> /\ report # NoReport)
    /\ []DispatchedOnce

\* an invocation has ended with a report after an adapter call and a step
\* two condition branches deep
C38_Witness ==
    /\ pc = "done"
    /\ report # NoReport
    /\ inflight = {}
    /\ \E d \in DOMAIN dispatched : Len(dispatched[d]) = 3
    /\ Dispatched(TopPath(3))

====
